---- MODULE Spec2Model ----
(***************************************************************************)
(* Verification model of the Mesos master's DRF sorter                     *)
(* (src/src/master/drf_sorter.cpp) and quota handler                       *)
(* (src/src/master/quota_handler.cpp, src/src/master/quota.cpp).           *)
(***************************************************************************)
EXTENDS Integers, Naturals, Sequences, FiniteSets, TLC

VARIABLES
  \* ---- DRFSorter ----
  clients,       \* std::set<Client, DRFComparator>: the active clients
  allocations,   \* hashmap<string, Resources>: cumulative allocation per name
  weights,       \* hashmap<string, double>
  resources,     \* Resources: the total pool
  dirty,         \* bool
  result,        \* the list<string> the operation just executed returned
                 \* (empty unless that operation was sort())
  \* ---- Master, as the quota handler sees it ----
  quotas,        \* master->quotas: hashmap<string, Quota>
  registry,      \* registry->quotas(): the persisted entries
  registrar,     \* operations handed to registrar->apply, not yet resolved
  slaves,        \* master->slaves.registered, with each agent's offers
  frameworks,    \* the registered frameworks (master->activeRoles)
  roleWhitelist, \* master->roleWhitelist, an Option: {} or {the set of roles}
  authorizer,    \* master->authorizer: "none" or "some"
  requests,      \* the HTTP requests and how far each has come
  allocatorCalls,\* the calls dispatched to the allocator, in order
  aborted,       \* the CHECK that ended the process, "" while it runs
  \* ---- a function applied on its own ----
  arg,           \* the QuotaInfo it is applied to
  ret,           \* <<what it returned>>, <<>> before the call
  \* ---- MesosAllocator, the facade, and its process ----
  process,       \* the allocator process: "running" or "terminated"
  mailbox,       \* the events queued for the process, oldest first
  executing,     \* the operations the process is executing
  log,           \* the operations the process has executed, in order
  nextId,        \* the number the next facade call gets
  pc,            \* where each calling thread is
  ceasedAt,      \* <<nextId at the first ceaseAllocation>>, <<>> before it
  ceased,        \* the number of ceaseAllocation calls that have returned
  facade,        \* "alive", or "destroyed" once the destructor has run
  \* ---- the allocator process: allocation passes and filters ----
  inflight,      \* the number of allocation passes in flight
  owed,          \* the passes to run once the one in flight finishes
  during,        \* the triggers that arrived during the pass in flight
  held,          \* per agent: the framework its resources are offered to,
                 \* or "free"
  filters,       \* the active filters, <<framework, agent>>
  last,          \* the handler the process ran last
  \* ---- the sorter's callers ----
  member,        \* per client name the caller added: "active" or "inactive"
  \* ---- WhitelistWatcher ----
  path,          \* "*" or the path of the whitelist file
  lastWhitelist, \* Option<hashset<string>>: <<>> is None, <<s>> is Some(s)
  notified,      \* <<the whitelist the subscriber got last>>, <<>> before
  sent,          \* whether the last watch() called the subscriber
  watches,       \* the number of watch() calls that are scheduled
  read,          \* what os::read returned to the last watch()
  \* ---- the health checkers ----
  check,         \* the HealthCheck the checker was created with
  checker,       \* the checker's fields, and the clock it reads
  status,        \* <<the TaskHealthStatus the last handler sent>>, or <<>>
  \* ---- MemoryProfiler ----
  now,           \* the system clock, in seconds
  currentRun,    \* Option<ProfilingRun>: <<>> or <<id>>
  jemallocRawProfile,       \* the timestamp of each DiskArtifact, a
  jeprofSymbolizedProfile,  \* Try<time_t>
  jeprofGraph,
  reply          \* the request the profiler handled last and its response

sorterVars == <<clients, allocations, weights, resources, dirty, result>>

masterVars == <<quotas, registry, registrar, slaves, frameworks, roleWhitelist,
                authorizer, requests, allocatorCalls, aborted>>
callVars == <<arg, ret>>
facadeVars == <<process, mailbox, executing, log, nextId, pc, ceasedAt, ceased,
                facade>>
passVars == <<inflight, owed, during, held, filters, last>>
allocatorVars == <<facadeVars, passVars>>
memberVars == <<member>>
watcherVars == <<path, lastWhitelist, notified, sent, watches, read>>
healthVars == <<check, checker, status>>
profilerVars == <<now, currentRun, jemallocRawProfile, jeprofSymbolizedProfile,
                  jeprofGraph, reply>>
toolVars == <<memberVars, watcherVars, healthVars, profilerVars>>
otherVars == <<allocatorVars, toolVars>>

vars == <<sorterVars, masterVars, callVars, otherVars>>

(***************************************************************************)
(* Bounds.                                                                 *)
(***************************************************************************)
MaxAmount == 1        \* largest quantity of one resource kind
MaxAllocations == 1   \* cap on a client's 'allocations' counter
NRequests == 2        \* number of HTTP requests the master receives

NameOrder == <<"f1", "f2">>   \* the client names, in lexical order
Names == {NameOrder[i] : i \in 1..Len(NameOrder)}
NameRank(n) == CHOOSE i \in 1..Len(NameOrder) : NameOrder[i] = n
Weights == {1, 2}     \* powers of two: the double division by them is exact
ScalarKinds == {"cpus", "mem"}

(***************************************************************************)
(* Resources: a quantity per scalar resource kind.                         *)
(***************************************************************************)
Amounts == 0..MaxAmount
ResourcesSet == [ScalarKinds -> Amounts]
EmptyResources == [k \in ScalarKinds |-> 0]
NonEmptyResources == ResourcesSet \ {EmptyResources}

Plus(a, b) == [k \in ScalarKinds |-> a[k] + b[k]]
Minus(a, b) == [k \in ScalarKinds |-> a[k] - b[k]]
Contains(a, b) == \A k \in ScalarKinds : a[k] >= b[k]
InBounds(a) == \A k \in ScalarKinds : a[k] <= MaxAmount

(***************************************************************************)
(* Shares are doubles; over the small integers used here a quotient is     *)
(* represented exactly by a reduced fraction <<n, d>> with d > 0.          *)
(***************************************************************************)
RECURSIVE GCD(_, _)
GCD(a, b) == IF b = 0 THEN a ELSE GCD(b, a % b)

Frac(n, d) == IF n = 0 THEN <<0, 1>> ELSE <<n \div GCD(n, d), d \div GCD(n, d)>>
ShareLess(s, t) == s[1] * t[2] < t[1] * s[2]
ShareMax(s, t) == IF ShareLess(s, t) THEN t ELSE s

Client(name, share, allocs) == [name |-> name, share |-> share, allocations |-> allocs]

\* DRFComparator::operator(): drf_sorter.cpp:33-42
DRFComparator(client1, client2) ==
  IF client1.share = client2.share
    THEN IF client1.allocations = client2.allocations
           THEN NameRank(client1.name) < NameRank(client2.name)
           ELSE client1.allocations < client2.allocations
    ELSE ShareLess(client1.share, client2.share)

\* Iteration order of a std::set<Client, DRFComparator>: begin() .. end().
First(S) == CHOOSE c \in S : \A d \in S \ {c} : DRFComparator(c, d)

RECURSIVE Iterate(_)
Iterate(S) == IF S = {} THEN <<>> ELSE <<First(S)>> \o Iterate(S \ {First(S)})

NoClient == Client("", <<0, 1>>, 0)   \* stands for clients.end()

\* DRFSorter::find: the first client of that name in iteration order.
find(name, cl) ==
  IF \E c \in cl : c.name = name
    THEN First({c \in cl : c.name = name})
    ELSE NoClient

\* hashmap operator[]: a missing key reads as a default-constructed value.
AllocationOf(name, al) == IF name \in DOMAIN al THEN al[name] ELSE EmptyResources
WeightOf(name, w) == w[name]

Put(map, key, value) == [k \in DOMAIN map \cup {key} |-> IF k = key THEN value ELSE map[k]]
Erase(map, key) == [k \in DOMAIN map \ {key} |-> map[k]]

\* The max over the scalar kinds of the pool with total > 0 of alloc/total.
RECURSIVE MaxShare(_, _, _)
MaxShare(kinds, alloc, total) ==
  IF kinds = {} THEN <<0, 1>>
  ELSE LET k == CHOOSE x \in kinds : TRUE
           rest == MaxShare(kinds \ {k}, alloc, total)
       IN IF total[k] > 0 THEN ShareMax(rest, Frac(alloc[k], total[k])) ELSE rest

\* Mutant of calculateShare: the share is not divided by the weight.
calculateShare_Unweighted(name, al, w, total) ==
  MaxShare(ScalarKinds, AllocationOf(name, al), total)

\* DRFSorter::calculateShare
calculateShare(name, al, w, total) ==
  LET share == MaxShare(ScalarKinds, AllocationOf(name, al), total)
  IN Frac(share[1], share[2] * WeightOf(name, w))

\* DRFSorter::update
update(name, cl, al, w, total) ==
  LET it == find(name, cl)
  IN IF it # NoClient
       THEN (cl \ {it}) \cup {[it EXCEPT !.share = calculateShare(name, al, w, total)]}
       ELSE cl

\* The containers after the three statements of DRFSorter::add(name, weight).
Added(name, weight, cl, al, w) ==
  [clients |-> cl \cup {Client(name, <<0, 1>>, 0)},
   allocations |-> Put(al, name, EmptyResources),
   weights |-> Put(w, name, weight)]

\* DRFSorter::add(name, weight)
add(name, weight) ==
  /\ clients' = Added(name, weight, clients, allocations, weights).clients
  /\ allocations' = Added(name, weight, clients, allocations, weights).allocations
  /\ weights' = Added(name, weight, clients, allocations, weights).weights
  /\ result' = <<>>
  /\ UNCHANGED <<resources, dirty>>

\* DRFSorter::remove(name)
remove(name) ==
  /\ clients' = clients \ {find(name, clients)}
  /\ allocations' = Erase(allocations, name)
  /\ weights' = Erase(weights, name)
  /\ result' = <<>>
  /\ UNCHANGED <<resources, dirty>>

\* The clients after DRFSorter::activate inserted a new Client for the name.
Activated(name, cl, al, w, total) ==
  cl \cup {Client(name, calculateShare(name, al, w, total), 0)}

\* Mutant of Deactivated: the Client stays in the set.
Deactivated_Keep(name, cl) == cl

\* The clients after DRFSorter::deactivate erased the Client of the name.
Deactivated(name, cl) == cl \ {find(name, cl)}

\* DRFSorter::activate
activate(name) ==
  /\ name \in DOMAIN allocations    \* CHECK(allocations.contains(name))
  /\ clients' = Activated(name, clients, allocations, weights, resources)
  /\ result' = <<>>
  /\ UNCHANGED <<allocations, weights, resources, dirty>>

\* DRFSorter::deactivate
deactivate(name) ==
  /\ clients' = Deactivated(name, clients)
  /\ result' = <<>>
  /\ UNCHANGED <<allocations, weights, resources, dirty>>

\* Mutant of Counted: the allocations counter is left as it was.
Counted_None(name, cl) == cl

\* The client set after the erase/insert of DRFSorter::allocated.
Counted(name, cl) ==
  LET it == find(name, cl)
  IN IF it # NoClient
       THEN (cl \ {it}) \cup {[it EXCEPT !.allocations = @ + 1]}
       ELSE cl

\* DRFSorter::allocated
allocated(name, r) ==
  LET al == Put(allocations, name, Plus(AllocationOf(name, allocations), r))
  IN /\ allocations' = al
     /\ clients' = IF ~dirty
                     THEN update(name, Counted(name, clients), al, weights, resources)
                     ELSE Counted(name, clients)
     /\ result' = <<>>
     /\ UNCHANGED <<weights, resources, dirty>>

\* DRFSorter::unallocated
unallocated(name, r) ==
  LET al == Put(allocations, name, Minus(AllocationOf(name, allocations), r))
  IN /\ allocations' = al
     /\ clients' = IF ~dirty
                     THEN update(name, clients, al, weights, resources)
                     ELSE clients
     /\ result' = <<>>
     /\ UNCHANGED <<weights, resources, dirty>>

\* DRFSorter::add(const Resources&)
addResources(r) ==
  /\ resources' = Plus(resources, r)
  /\ dirty' = TRUE
  /\ result' = <<>>
  /\ UNCHANGED <<clients, allocations, weights>>

\* DRFSorter::remove(const Resources&)
removeResources(r) ==
  /\ resources' = Minus(resources, r)
  /\ dirty' = TRUE
  /\ result' = <<>>
  /\ UNCHANGED <<clients, allocations, weights>>

\* Mutant of Resorted: sort() that recomputes the shares when dirty is clear.
Resorted_WhenClean(cl, d, al, w, total) ==
  IF ~d THEN {[c EXCEPT !.share = calculateShare(c.name, al, w, total)] : c \in cl}
        ELSE cl

\* Mutant of Resorted: sort() that never recomputes the shares.
Resorted_Stale(cl, d, al, w, total) == cl

\* The client set DRFSorter::sort() leaves behind.
Resorted(cl, d, al, w, total) ==
  IF d THEN {[c EXCEPT !.share = calculateShare(c.name, al, w, total)] : c \in cl}
       ELSE cl

Names_of(seq) == [i \in 1..Len(seq) |-> seq[i].name]

\* DRFSorter::sort
sort ==
  /\ clients' = Resorted(clients, dirty, allocations, weights, resources)
  /\ result' = Names_of(Iterate(clients'))
  /\ UNCHANGED <<allocations, weights, resources, dirty>>

\* DRFSorter after construction.
SorterIdle ==
  /\ clients = {}
  /\ allocations = <<>>
  /\ weights = <<>>
  /\ resources = EmptyResources
  /\ dirty = FALSE
  /\ result = <<>>

\* The master before any quota request, for the sorter on its own.
MasterIdle ==
  /\ quotas = <<>>
  /\ registry = <<>>
  /\ registrar = <<>>
  /\ slaves = <<>>
  /\ frameworks = <<>>
  /\ roleWhitelist = {}
  /\ authorizer = "none"
  /\ requests = <<>>
  /\ allocatorCalls = <<>>
  /\ aborted = ""

NoCall ==
  /\ arg = <<>>
  /\ ret = <<>>

Threads == {"t1", "t2"}    \* the threads that call the facade

\* MesosAllocator::MesosAllocator: the process is created and spawned.
Constructed ==
  /\ process = "running"
  /\ mailbox = <<>>
  /\ executing = {}
  /\ log = <<>>
  /\ nextId = 1
  /\ pc = [t \in Threads |-> "idle"]
  /\ ceasedAt = <<>>
  /\ ceased = 0
  /\ facade = "alive"

Handler(op, f, a, refuse, triggers) ==
  [op |-> op, framework |-> f, agent |-> a, refuse |-> refuse,
   triggers |-> triggers]

\* The allocator process after initialize: no pass, no offer, no filter.
Initialized ==
  /\ inflight = 0
  /\ owed = 0
  /\ during = 0
  /\ held = [a \in {"a1", "a2"} |-> "free"]
  /\ filters = {}
  /\ last = Handler("initialize", "", "", 0, 0)

AllocatorIdle == Constructed /\ Initialized

\* Nothing else of the master is in use.
WatcherIdle ==
  /\ path = "*"
  /\ lastWhitelist = <<>>
  /\ notified = <<>>
  /\ sent = FALSE
  /\ watches = 0
  /\ read = <<>>

HealthIdle ==
  /\ check = <<>>
  /\ checker = <<>>
  /\ status = <<>>

\* MemoryProfiler::MemoryProfiler and DiskArtifact::DiskArtifact
ProfilerIdle ==
  /\ now = 0
  /\ currentRun = <<>>
  /\ jemallocRawProfile = [ok |-> FALSE, error |-> "Not yet generated."]
  /\ jeprofSymbolizedProfile = [ok |-> FALSE, error |-> "Not yet generated."]
  /\ jeprofGraph = [ok |-> FALSE, error |-> "Not yet generated."]
  /\ reply = <<>>

ToolsIdle ==
  /\ member = <<>>
  /\ WatcherIdle
  /\ HealthIdle
  /\ ProfilerIdle

OthersIdle == AllocatorIdle /\ ToolsIdle

(***************************************************************************)
(* The sorter driven by a caller that keeps the interface's preconditions: *)
(* a name is added once, activated only after a deactivate, and resources  *)
(* are taken only from what was given.                                     *)
(***************************************************************************)
Active(name) == \E c \in clients : c.name = name

\* What the callers have handed out: they allocate only what the pool holds,
\* or before the pool is known.
RECURSIVE SumOver(_, _)
SumOver(names, al) ==
  IF names = {} THEN EmptyResources
  ELSE LET n == CHOOSE x \in names : TRUE
       IN Plus(al[n], SumOver(names \ {n}, al))
TotalAllocated(al) == SumOver(DOMAIN al, al)

SorterInit ==
  /\ SorterIdle
  /\ OthersIdle
  /\ MasterIdle
  /\ NoCall

SorterAdd ==
  /\ \E name \in Names \ DOMAIN allocations, w \in Weights : add(name, w)
  /\ UNCHANGED <<masterVars, callVars, otherVars>>
SorterRemove ==
  /\ \E name \in DOMAIN allocations : remove(name)
  /\ UNCHANGED <<masterVars, callVars, otherVars>>
SorterActivate ==
  /\ \E name \in DOMAIN allocations : ~Active(name) /\ activate(name)
  /\ UNCHANGED <<masterVars, callVars, otherVars>>
SorterDeactivate ==
  /\ \E name \in DOMAIN allocations : deactivate(name)
  /\ UNCHANGED <<masterVars, callVars, otherVars>>
SorterAllocated ==
  /\ \E name \in DOMAIN allocations, r \in NonEmptyResources :
      /\ \/ resources = EmptyResources
            /\ InBounds(Plus(TotalAllocated(allocations), r))
         \/ Contains(resources, Plus(TotalAllocated(allocations), r))
      /\ \A c \in clients : c.name = name => c.allocations < MaxAllocations
      /\ allocated(name, r)
  /\ UNCHANGED <<masterVars, callVars, otherVars>>
SorterUnallocated ==
  /\ \E name \in DOMAIN allocations, r \in NonEmptyResources :
      /\ Contains(allocations[name], r)
      /\ unallocated(name, r)
  /\ UNCHANGED <<masterVars, callVars, otherVars>>
SorterAddResources ==
  /\ \E r \in NonEmptyResources : InBounds(Plus(resources, r)) /\ addResources(r)
  /\ UNCHANGED <<masterVars, callVars, otherVars>>
SorterRemoveResources ==
  /\ \E r \in NonEmptyResources : Contains(resources, r) /\ removeResources(r)
  /\ UNCHANGED <<masterVars, callVars, otherVars>>
SorterSort ==
  /\ sort
  /\ UNCHANGED <<masterVars, callVars, otherVars>>

SorterNext ==
  \/ SorterAdd
  \/ SorterRemove
  \/ SorterActivate
  \/ SorterDeactivate
  \/ SorterAllocated
  \/ SorterUnallocated
  \/ SorterAddResources
  \/ SorterRemoveResources
  \/ SorterSort

SpecSorter == SorterInit /\ [][SorterNext]_vars

(***************************************************************************)
(* Quota: requests, validation and the registry operations.                *)
(*                                                                         *)
(* A Resource of a request carries a name, a type, a scalar value, an      *)
(* optional role and at most one of the fields quota may not carry.        *)
(* Requests are modelled from the parsed 'resources' array on.             *)
(***************************************************************************)
Unset == "<unset>"                    \* an optional string field not set
RequestRoles == {Unset, "", "r1", "r2"}
Extras == {"none", "reservation", "disk", "revocable"}

Resource(name, type, value, role, extra) ==
  [name |-> name, type |-> type, value |-> value, role |-> role, extra |-> extra]

ResourceSet ==
  [name : ScalarKinds, type : {"SCALAR", "RANGES"}, value : 1..MaxAmount,
   role : RequestRoles, extra : Extras]

\* Resource::role(): an unset role reads as the default "*".
RoleOf(resource) == IF resource.role = Unset THEN "*" ELSE resource.role
has_role(resource) == resource.role # Unset
clear_role(resource) == [resource EXCEPT !.role = Unset]

QuotaInfo(role, guarantee) == [role |-> role, guarantee |-> guarantee]

\* QuotaInfo::role(): an unset role reads as "".
QuotaRole(info) == IF info.role = Unset THEN "" ELSE info.role

Ok(value) == [ok |-> TRUE, value |-> value]
Error(message) == [ok |-> FALSE, error |-> message]

\* Mutant of FirstDifferent: the roles are not compared.
FirstDifferent_None(rs, role) == 0

\* The first resource whose role differs from the reference role, 0 if none.
FirstDifferent(rs, role) ==
  IF \E i \in 1..Len(rs) : RoleOf(rs[i]) # role
    THEN CHOOSE i \in 1..Len(rs) :
           /\ RoleOf(rs[i]) # role
           /\ \A j \in 1..(i - 1) : RoleOf(rs[j]) = role
    ELSE 0

\* createQuotaInfo
createQuotaInfo(rs) ==
  LET role == IF Len(rs) > 0 THEN RoleOf(rs[1]) ELSE Unset
      bad == FirstDifferent(rs, QuotaRole(QuotaInfo(role, <<>>)))
  IN IF bad # 0
       THEN Error(<<"Resources with different roles", role, RoleOf(rs[bad])>>)
       ELSE Ok(QuotaInfo(role, [i \in 1..Len(rs) |-> clear_role(rs[i])]))

\* Mutant of ResourceError: DiskInfo is not looked at.
ResourceError_NoDisk(resource, role) ==
  IF resource.extra = "reservation" THEN "Quota request may not contain ReservationInfo"
  ELSE IF resource.extra = "revocable" THEN "Quota request may not contain RevocableInfo"
  ELSE IF resource.type # "SCALAR" THEN "Quota request may not include non-scalar resources"
  ELSE IF resource.role = "<unset>" THEN "Quota request without role specified"
  ELSE IF resource.role = "" THEN "Quota request with empty role specified"
  ELSE IF role # "" /\ role # resource.role THEN "Quota request with different roles"
  ELSE ""

\* One iteration of the loop of quota::validation::quotaInfo: the error the
\* resource raises against the reference role, or "" when it passes.
ResourceError(resource, role) ==
  IF resource.extra = "reservation" THEN "Quota request may not contain ReservationInfo"
  ELSE IF resource.extra = "disk" THEN "Quota request may not contain DiskInfo"
  ELSE IF resource.extra = "revocable" THEN "Quota request may not contain RevocableInfo"
  ELSE IF resource.type # "SCALAR" THEN "Quota request may not include non-scalar resources"
  ELSE IF ~has_role(resource) THEN "Quota request without role specified"
  ELSE IF RoleOf(resource) = "" THEN "Quota request with empty role specified"
  ELSE IF role # "" /\ role # RoleOf(resource) THEN "Quota request with different roles"
  ELSE ""

\* quota::validation::quotaInfo, from resource i on with reference role 'role'.
RECURSIVE ValidateFrom(_, _, _)
ValidateFrom(rs, i, role) ==
  IF i > Len(rs) THEN Ok("Nothing")
  ELSE IF ResourceError(rs[i], role) # "" THEN Error(ResourceError(rs[i], role))
  ELSE ValidateFrom(rs, i + 1, IF role = "" THEN RoleOf(rs[i]) ELSE role)

quotaInfo(info) == ValidateFrom(info.guarantee, 1, QuotaRole(info))

\* Resources(repeated Resource): the scalar quantities, summed by name.
RECURSIVE ToResources(_)
ToResources(rs) ==
  IF rs = <<>> THEN EmptyResources
  ELSE LET r == Head(rs)
       IN IF r.type = "SCALAR"
            THEN Plus([k \in ScalarKinds |-> IF k = r.name THEN r.value ELSE 0],
                      ToResources(Tail(rs)))
            ELSE ToResources(Tail(rs))

\* Registry: registry->quotas() is a repeated field of entries.
IndexOfRole(reg, role) ==
  IF \E i \in 1..Len(reg) : QuotaRole(reg[i]) = role
    THEN CHOOSE i \in 1..Len(reg) :
           /\ QuotaRole(reg[i]) = role
           /\ \A j \in 1..(i - 1) : QuotaRole(reg[j]) # role
    ELSE 0

\* Mutant of UpdateQuota: an entry is always added.
UpdateQuota_Append(reg, info) == [registry |-> Append(reg, info), result |-> TRUE]

\* UpdateQuota::perform: the registry afterwards, and the result.
UpdateQuota(reg, info) ==
  LET existingRoleIndex == IndexOfRole(reg, QuotaRole(info))
  IN [registry |-> IF existingRoleIndex > 0
                     THEN [reg EXCEPT ![existingRoleIndex] = info]
                     ELSE Append(reg, info),
      result |-> TRUE]

\* Mutant of RemoveQuota: the entry of the role is left in the registry.
RemoveQuota_Keep(reg, role) == [registry |-> reg, result |-> TRUE]

\* RemoveQuota::perform
RemoveQuota(reg, role) ==
  LET i == IndexOfRole(reg, role)
  IN [registry |-> IF i > 0
                     THEN SubSeq(reg, 1, i - 1) \o SubSeq(reg, i + 1, Len(reg))
                     ELSE reg,
      result |-> i > 0]

(***************************************************************************)
(* The cluster as the master sees it.                                      *)
(***************************************************************************)
AgentIds == <<"a1", "a2">>         \* in the iteration order of slaves.registered
Agents == {AgentIds[i] : i \in 1..Len(AgentIds)}
FrameworkIds == {"fw1", "fw2"}

\* Resources(slave->info.resources()).unreserved()
unreserved(info) == info.unreserved

Eligible(slave) == slave.connected /\ slave.active

\* Master::isWhitelistedRole
isWhitelistedRole(whitelist, role) ==
  IF whitelist = {} THEN TRUE ELSE \E roles \in whitelist : role \in roles

\* The sum of the guarantees of master->quotas.
RECURSIVE SumGuarantees(_, _)
SumGuarantees(roles, qs) ==
  IF roles = {} THEN EmptyResources
  ELSE LET r == CHOOSE x \in roles : TRUE
       IN Plus(ToResources(qs[r].guarantee), SumGuarantees(roles \ {r}, qs))

\* Mutant of HeuristicFrom: the resources found must equal the total quota.
RECURSIVE HeuristicFrom_Exact(_, _, _, _)
HeuristicFrom_Exact(i, nonStaticClusterResources, totalQuota, sl) ==
  IF i > Len(AgentIds) THEN "Not enough available cluster capacity"
  ELSE LET slave == sl[AgentIds[i]]
       IN IF ~slave.connected \/ ~slave.active
            THEN HeuristicFrom_Exact(i + 1, nonStaticClusterResources, totalQuota, sl)
            ELSE LET sum == Plus(nonStaticClusterResources, unreserved(slave.info))
                 IN IF sum = totalQuota
                      THEN "None"
                      ELSE HeuristicFrom_Exact(i + 1, sum, totalQuota, sl)

\* The agent loop of capacityHeuristic from agent i on.
RECURSIVE HeuristicFrom(_, _, _, _)
HeuristicFrom(i, nonStaticClusterResources, totalQuota, sl) ==
  IF i > Len(AgentIds) THEN "Not enough available cluster capacity"
  ELSE LET slave == sl[AgentIds[i]]
       IN IF ~slave.connected \/ ~slave.active
            THEN HeuristicFrom(i + 1, nonStaticClusterResources, totalQuota, sl)
            ELSE LET sum == Plus(nonStaticClusterResources, unreserved(slave.info))
                 IN IF Contains(sum, totalQuota)
                      THEN "None"
                      ELSE HeuristicFrom(i + 1, sum, totalQuota, sl)

\* Master::QuotaHandler::capacityHeuristic: "None", the error, or the CHECK
\* that fails.
capacityHeuristic(request, qs, sl, whitelist) ==
  IF ~isWhitelistedRole(whitelist, QuotaRole(request))
    THEN "CHECK(isWhitelistedRole)"
  ELSE IF QuotaRole(request) \in DOMAIN qs
    THEN "CHECK(!quotas.contains)"
  ELSE HeuristicFrom(1, EmptyResources,
                     Plus(ToResources(request.guarantee), SumGuarantees(DOMAIN qs, qs)),
                     sl)

\* The number of connected and active frameworks of the role.
frameworksInRole(role, fws) ==
  Cardinality({f \in DOMAIN fws :
                 fws[f].role = role /\ fws[f].connected /\ fws[f].active})

RecoverResources(offer, agent, req) ==
  [call |-> "recoverResources", framework |-> offer.framework, slave |-> agent,
   resources |-> offer.resources, req |-> req]
SetQuotaCall(info, req) ==
  [call |-> "setQuota", role |-> QuotaRole(info), info |-> info, req |-> req]
RemoveQuotaCall(role, req) == [call |-> "removeQuota", role |-> role, req |-> req]

\* Mutant of SumOffers: only the first offer of an agent is counted.
SumOffers_First(offers) ==
  IF offers = <<>> THEN [k \in ScalarKinds |-> 0] ELSE Head(offers).resources

RECURSIVE SumOffers(_)
SumOffers(offers) ==
  IF offers = <<>> THEN EmptyResources
  ELSE Plus(Head(offers).resources, SumOffers(Tail(offers)))

\* Mutant of StopRescinding: the number of visited agents is ignored.
StopRescinding_ContainsOnly(rescinded, guarantee, visitedAgents, inRole) ==
  Contains(rescinded, guarantee)

\* Mutant of StopRescinding: stop as soon as enough agents were visited.
StopRescinding_Or(rescinded, guarantee, visitedAgents, inRole) ==
  Contains(rescinded, guarantee) \/ visitedAgents >= inRole

\* The break of the agent loop of rescindOffers.
StopRescinding(rescinded, guarantee, visitedAgents, inRole) ==
  Contains(rescinded, guarantee) /\ visitedAgents >= inRole

\* The agent loop of rescindOffers from agent i on: the agents with their
\* offers, the recoverResources calls issued, and the locals at the end.
RECURSIVE RescindFrom(_, _, _, _, _, _, _, _)
RescindFrom(i, rescinded, visitedAgents, sl, calls, request, inRole, req) ==
  IF i > Len(AgentIds)
       \/ StopRescinding(rescinded, ToResources(request.guarantee), visitedAgents, inRole)
    THEN [slaves |-> sl, calls |-> calls, rescinded |-> rescinded,
          visitedAgents |-> visitedAgents]
  ELSE LET a == AgentIds[i]
           offers == sl[a].offers
       IN IF ~sl[a].connected \/ ~sl[a].active
            THEN RescindFrom(i + 1, rescinded, visitedAgents, sl, calls, request, inRole, req)
            ELSE RescindFrom(
                   i + 1,
                   Plus(rescinded, SumOffers(offers)),
                   IF offers # <<>> THEN visitedAgents + 1 ELSE visitedAgents,
                   [sl EXCEPT ![a].offers = <<>>],
                   calls \o [k \in 1..Len(offers) |-> RecoverResources(offers[k], a, req)],
                   request, inRole, req)

\* Master::QuotaHandler::rescindOffers
rescindOffers(request, sl, fws, req) ==
  RescindFrom(1, EmptyResources, 0, sl, <<>>, request,
              frameworksInRole(QuotaRole(request), fws), req)

(***************************************************************************)
(* The handlers of the quota endpoint.  A request passes through           *)
(*   "new" -> "authorizing" -> "applying" -> "applied" -> "done";          *)
(* every arrow is one event executed by the master (or by the registrar).  *)
(***************************************************************************)
NoInfo == QuotaInfo(Unset, <<>>)

Request(stage, kind, body, info, forced, res, response) ==
  [stage |-> stage, kind |-> kind, body |-> body, info |-> info,
   forced |-> forced, result |-> res, response |-> response]

NewRequest == Request("new", "none", <<>>, NoInfo, FALSE, "none", "none")

\* The synchronous part of Master::QuotaHandler::set: the response it
\* returns at once, or "" and the QuotaInfo it goes on to authorize.
ValidateSet(body, qs, whitelist) ==
  LET create == createQuotaInfo(body)
  IN IF ~create.ok THEN [response |-> "BadRequest", info |-> NoInfo]
     ELSE IF ~quotaInfo(create.value).ok
       THEN [response |-> "BadRequest", info |-> NoInfo]
     ELSE IF ~isWhitelistedRole(whitelist, QuotaRole(create.value))
       THEN [response |-> "BadRequest", info |-> NoInfo]
     ELSE IF QuotaRole(create.value) \in DOMAIN qs
       THEN [response |-> "BadRequest", info |-> NoInfo]
     ELSE [response |-> "", info |-> create.value]

\* Master::QuotaHandler::set
set(i, body, force) ==
  LET v == ValidateSet(body, quotas, roleWhitelist)
  IN /\ aborted = ""
     /\ requests[i].stage = "new"
     /\ requests' = [requests EXCEPT ![i] =
          IF v.response # ""
            THEN Request("done", "set", body, NoInfo, force, "none", v.response)
            ELSE Request("authorizing", "set", body, v.info, force, "none", "none")]
     /\ UNCHANGED <<quotas, registry, registrar, slaves, frameworks, roleWhitelist,
                    authorizer, allocatorCalls, aborted>>

\* Mutant of Recorded: the quota is recorded before the capacity heuristic.
Recorded_BeforeHeuristic(qs, info, heuristic) == Put(qs, QuotaRole(info), info)

\* master->quotas after Master::QuotaHandler::_set, given what the capacity
\* heuristic answered ("None" also stands for a forced request).
Recorded(qs, info, heuristic) ==
  IF heuristic = "None" THEN Put(qs, QuotaRole(info), info) ELSE qs

\* Mutant of PendingCalls: the allocator is told before the registry is.
PendingCalls_Eager(info, req) == <<SetQuotaCall(info, req)>>

\* The calls _set dispatches to the allocator between recording the quota
\* and handing UpdateQuota to the registrar: none.
PendingCalls(info, req) == <<>>

\* Mutant of authorize: without an authorizer the answer is not defaulted.
authorize_Strict(auth, answer) == answer

\* Master::QuotaHandler::authorize: true without an authorizer, else what the
\* authorizer answers.
authorize(auth, answer) == IF auth = "none" THEN TRUE ELSE answer

\* The continuation of set once authorize resolved, and _set.
_set(i, authorized) ==
  LET r == requests[i]
      heuristic == IF r.forced THEN "None"
                   ELSE capacityHeuristic(r.info, quotas, slaves, roleWhitelist)
  IN /\ aborted = ""
     /\ r.stage = "authorizing"
     /\ IF ~authorized
          THEN /\ requests' = [requests EXCEPT ![i].stage = "done",
                                               ![i].response = "Unauthorized"]
               /\ UNCHANGED <<quotas, registrar, aborted, allocatorCalls>>
          ELSE /\ quotas' = Recorded(quotas, r.info, heuristic)
               /\ IF heuristic = "None"
                    THEN /\ allocatorCalls' = allocatorCalls \o PendingCalls(r.info, i)
                         /\ registrar' = Append(registrar,
                                [req |-> i, op |-> "UpdateQuota", info |-> r.info])
                         /\ requests' = [requests EXCEPT ![i].stage = "applying"]
                         /\ UNCHANGED aborted
                    ELSE IF heuristic = "Not enough available cluster capacity"
                      THEN /\ requests' = [requests EXCEPT ![i].stage = "done",
                                                           ![i].response = "Conflict"]
                           /\ UNCHANGED <<registrar, aborted, allocatorCalls>>
                      ELSE /\ aborted' = heuristic
                           /\ UNCHANGED <<registrar, requests, allocatorCalls>>
     /\ UNCHANGED <<registry, slaves, frameworks, roleWhitelist, authorizer>>

\* Master::QuotaHandler::remove, up to the call of the registrar.
QuotaHandler_remove(i, role) ==
  /\ aborted = ""
  /\ requests[i].stage = "new"
  /\ IF ~isWhitelistedRole(roleWhitelist, role) \/ role \notin DOMAIN quotas
       THEN /\ requests' = [requests EXCEPT ![i] =
                 Request("done", "remove", <<>>, QuotaInfo(role, <<>>), FALSE,
                         "none", "BadRequest")]
            /\ UNCHANGED <<quotas, registrar>>
       ELSE /\ quotas' = Erase(quotas, role)
            /\ registrar' = Append(registrar,
                                   [req |-> i, op |-> "RemoveQuota", info |-> QuotaInfo(role, <<>>)])
            /\ requests' = [requests EXCEPT ![i] =
                 Request("applying", "remove", <<>>, QuotaInfo(role, <<>>), FALSE,
                         "none", "none")]
  /\ UNCHANGED <<registry, slaves, frameworks, roleWhitelist, authorizer,
                 allocatorCalls, aborted>>

\* registrar->apply resolves for the oldest operation: the store succeeds and
\* the future carries what perform returned, or it fails and so does the
\* future (the continuation chained with then() is never run).
apply(stored) ==
  LET o == Head(registrar)
      done == IF o.op = "UpdateQuota" THEN UpdateQuota(registry, o.info)
              ELSE RemoveQuota(registry, QuotaRole(o.info))
  IN /\ aborted = ""
     /\ registrar # <<>>
     /\ registrar' = Tail(registrar)
     /\ IF stored
          THEN /\ registry' = done.registry
               /\ requests' = [requests EXCEPT
                    ![o.req].stage = "applied",
                    ![o.req].result = IF done.result THEN "true" ELSE "false"]
          ELSE /\ registry' = registry
               /\ requests' = [requests EXCEPT
                    ![o.req].stage = "done",
                    ![o.req].result = "failed",
                    ![o.req].response = "Failed"]
     /\ UNCHANGED <<quotas, slaves, frameworks, roleWhitelist, authorizer,
                    allocatorCalls, aborted>>

\* CHECK(result) of the continuations.
Checked(res) == res = "true"

\* Mutant of Committed: the offers are rescinded before the quota is set.
Committed_RescindFirst(setQuota, recovered) == recovered \o <<setQuota>>

\* The calls the continuation of _set dispatches to the allocator, in order.
Committed(setQuota, recovered) == <<setQuota>> \o recovered

\* The continuation of _set once the registrar resolved.
setApplied(i) ==
  LET r == requests[i]
      rescind == rescindOffers(r.info, slaves, frameworks, i)
  IN /\ aborted = ""
     /\ r.stage = "applied"
     /\ r.kind = "set"
     /\ IF ~Checked(r.result)
          THEN /\ aborted' = "CHECK(result)"
               /\ UNCHANGED <<requests, allocatorCalls, slaves>>
          ELSE IF ~isWhitelistedRole(roleWhitelist, QuotaRole(r.info))
            THEN /\ aborted' = "CHECK(isWhitelistedRole)"
                 /\ UNCHANGED <<requests, allocatorCalls, slaves>>
            ELSE /\ allocatorCalls' =
                      allocatorCalls \o Committed(SetQuotaCall(r.info, i), rescind.calls)
                 /\ slaves' = rescind.slaves
                 /\ requests' = [requests EXCEPT ![i].stage = "done", ![i].response = "OK"]
                 /\ UNCHANGED aborted
     /\ UNCHANGED <<quotas, registry, registrar, frameworks, roleWhitelist, authorizer>>

\* The continuation of remove once the registrar resolved.
removeApplied(i) ==
  LET r == requests[i]
  IN /\ aborted = ""
     /\ r.stage = "applied"
     /\ r.kind = "remove"
     /\ IF ~Checked(r.result)
          THEN /\ aborted' = "CHECK(result)"
               /\ UNCHANGED <<requests, allocatorCalls>>
          ELSE /\ allocatorCalls' =
                      Append(allocatorCalls, RemoveQuotaCall(QuotaRole(r.info), i))
               /\ requests' = [requests EXCEPT ![i].stage = "done", ![i].response = "OK"]
               /\ UNCHANGED aborted
     /\ UNCHANGED <<quotas, registry, registrar, slaves, frameworks, roleWhitelist,
                    authorizer>>

(***************************************************************************)
(* The master receiving NRequests quota requests.  It starts recovered:    *)
(* the quotas of the registry are in master->quotas (and known to the      *)
(* allocator), the agents and frameworks are registered.                   *)
(***************************************************************************)
Plain(name, value) == Resource(name, "SCALAR", value, Unset, "none")
Res(cpus, mem) == [k \in ScalarKinds |-> IF k = "cpus" THEN cpus ELSE mem]

Slave(connected, active, unres, res, offers) ==
  [connected |-> connected, active |-> active,
   info |-> [unreserved |-> unres, reserved |-> res], offers |-> offers]
Offer(framework, res) == [framework |-> framework, resources |-> res]
Framework(role, connected, active) ==
  [role |-> role, connected |-> connected, active |-> active]

RecoveredQuotas == {<<>>, Put(<<>>, "r1", QuotaInfo("r1", <<Plain("cpus", 1)>>))}

QuotaSlaves ==
  {Slave(TRUE, TRUE, Res(1, 1), Res(0, 0), <<Offer("fw1", Res(1, 0))>>),
   Slave(TRUE, TRUE, Res(1, 0), Res(0, 1), <<>>),
   Slave(FALSE, TRUE, Res(1, 1), Res(0, 0), <<>>)}

QuotaFrameworks == {<<>>, Put(<<>>, "fw1", Framework("", TRUE, TRUE))}

RECURSIVE AsSequence(_)
AsSequence(qs) ==
  IF DOMAIN qs = {} THEN <<>>
  ELSE LET r == CHOOSE x \in DOMAIN qs : TRUE
       IN <<qs[r]>> \o AsSequence(Erase(qs, r))

QuotaInit ==
  /\ SorterIdle
  /\ OthersIdle
  /\ NoCall
  /\ quotas \in RecoveredQuotas
  /\ registry = AsSequence(quotas)
  /\ registrar = <<>>
  /\ slaves \in [Agents -> QuotaSlaves]
  /\ frameworks \in QuotaFrameworks
  /\ roleWhitelist \in {{}, {{"r1"}}}
  /\ authorizer \in {"none", "some"}
  /\ requests = [i \in 1..NRequests |-> NewRequest]
  /\ allocatorCalls = <<>>
  /\ aborted = ""

\* What the operator posts: an empty request, a request for role r1.
SetBodies == {<<>>, <<Resource("cpus", "SCALAR", 1, "r1", "none")>>}
RemoveRoles == {"r1", "r2"}

SetRequest ==
  /\ \E i \in 1..NRequests, body \in SetBodies, force \in BOOLEAN : set(i, body, force)
  /\ UNCHANGED <<otherVars, sorterVars, callVars>>
SetAuthorized ==
  /\ \E i \in 1..NRequests, answer \in BOOLEAN : _set(i, authorize(authorizer, answer))
  /\ UNCHANGED <<otherVars, sorterVars, callVars>>
RemoveRequest ==
  /\ \E i \in 1..NRequests, role \in RemoveRoles : QuotaHandler_remove(i, role)
  /\ UNCHANGED <<otherVars, sorterVars, callVars>>
RegistrarApply ==
  /\ \E stored \in BOOLEAN : apply(stored)
  /\ UNCHANGED <<otherVars, sorterVars, callVars>>
SetApplied ==
  /\ \E i \in 1..NRequests : setApplied(i)
  /\ UNCHANGED <<otherVars, sorterVars, callVars>>
RemoveApplied ==
  /\ \E i \in 1..NRequests : removeApplied(i)
  /\ UNCHANGED <<otherVars, sorterVars, callVars>>

QuotaNext ==
  \/ SetRequest
  \/ SetAuthorized
  \/ RemoveRequest
  \/ RegistrarApply
  \/ SetApplied
  \/ RemoveApplied

SpecQuota == QuotaInit /\ [][QuotaNext]_vars

(***************************************************************************)
(* capacityHeuristic applied to a request, in any cluster.                 *)
(***************************************************************************)
PlainResources == {Plain(k, v) : k \in ScalarKinds, v \in 1..MaxAmount}
Guarantees ==
  {<<>>} \cup {<<r>> : r \in PlainResources}
         \cup {<<r, q>> : r \in PlainResources, q \in PlainResources}

ExistingQuotas ==
  {<<>>} \cup {Put(<<>>, "r2", QuotaInfo("r2", <<r>>)) : r \in PlainResources}

CapacitySlaves ==
  {Slave(on[1], on[2], unres, res, <<>>) :
     on \in {<<TRUE, TRUE>>, <<FALSE, TRUE>>, <<TRUE, FALSE>>},
     unres \in ResourcesSet,
     res \in {Res(0, 0), Res(1, 1)}}

CapacityInit ==
  /\ SorterIdle
  /\ OthersIdle
  /\ quotas \in ExistingQuotas
  /\ registry = AsSequence(quotas)
  /\ registrar = <<>>
  /\ slaves \in [Agents -> CapacitySlaves]
  /\ frameworks = <<>>
  /\ roleWhitelist = {}
  /\ authorizer = "none"
  /\ requests = <<>>
  /\ allocatorCalls = <<>>
  /\ aborted = ""
  /\ arg \in {QuotaInfo("r1", g) : g \in Guarantees}
  /\ ret = <<>>

CallCapacityHeuristic ==
  /\ ret = <<>>
  /\ ret' = <<capacityHeuristic(arg, quotas, slaves, roleWhitelist)>>
  /\ UNCHANGED <<otherVars, sorterVars, masterVars, arg>>

CapacityNext == CallCapacityHeuristic

SpecCapacity == CapacityInit /\ [][CapacityNext]_vars

(***************************************************************************)
(* rescindOffers applied to a request, in any cluster.                     *)
(***************************************************************************)
Offers == {Offer("fw1", Res(1, 0)), Offer("fw1", Res(0, 1)), Offer("fw2", Res(1, 0))}
OfferLists ==
  {<<>>} \cup {<<o>> : o \in Offers} \cup {<<o, q>> : o \in Offers, q \in Offers}

RescindSlaves ==
  {Slave(on[1], on[2], Res(1, 1), Res(0, 0), offers) :
     on \in {<<TRUE, TRUE>>, <<FALSE, TRUE>>, <<TRUE, FALSE>>},
     offers \in OfferLists}

RescindFrameworks ==
  [FrameworkIds -> {Framework("r1", TRUE, TRUE), Framework("r1", TRUE, FALSE),
                    Framework("r2", TRUE, TRUE)}]

RescindInit ==
  /\ SorterIdle
  /\ OthersIdle
  /\ quotas = <<>>
  /\ registry = <<>>
  /\ registrar = <<>>
  /\ slaves \in [Agents -> RescindSlaves]
  /\ frameworks \in RescindFrameworks
  /\ roleWhitelist = {}
  /\ authorizer = "none"
  /\ requests = <<>>
  /\ allocatorCalls = <<>>
  /\ aborted = ""
  /\ arg \in {QuotaInfo("r1", g) : g \in Guarantees}
  /\ ret = <<>>

CallRescindOffers ==
  LET r == rescindOffers(arg, slaves, frameworks, 0)
  IN /\ ret = <<>>
     /\ slaves' = r.slaves
     /\ allocatorCalls' = allocatorCalls \o r.calls
     /\ ret' = <<[rescinded |-> r.rescinded, visitedAgents |-> r.visitedAgents]>>
     /\ UNCHANGED <<otherVars, sorterVars, quotas, registry, registrar, frameworks,
                    roleWhitelist, authorizer, requests, aborted, arg>>

RescindNext == CallRescindOffers

SpecRescind == RescindInit /\ [][RescindNext]_vars

(***************************************************************************)
(* The master receiving one set request with any resources array of up to  *)
(* two resources.                                                          *)
(***************************************************************************)
AnyBodies ==
  {<<>>} \cup {<<r>> : r \in ResourceSet}
         \cup {<<r, q>> : r \in ResourceSet, q \in ResourceSet}

ValidateInit ==
  /\ SorterIdle
  /\ OthersIdle
  /\ NoCall
  /\ quotas \in RecoveredQuotas
  /\ registry = AsSequence(quotas)
  /\ registrar = <<>>
  /\ slaves = [a \in Agents |-> Slave(TRUE, TRUE, Res(1, 1), Res(0, 0), <<>>)]
  /\ frameworks = <<>>
  /\ roleWhitelist \in {{}, {{"r1"}}}
  /\ authorizer \in {"none", "some"}
  /\ requests = [i \in 1..NRequests |-> NewRequest]
  /\ allocatorCalls = <<>>
  /\ aborted = ""

ValidateRequest ==
  /\ requests[1].stage = "new"
  /\ \E body \in AnyBodies, force \in BOOLEAN : set(1, body, force)
  /\ UNCHANGED <<otherVars, sorterVars, callVars>>

ValidateNext ==
  \/ ValidateRequest
  \/ SetAuthorized
  \/ RegistrarApply
  \/ SetApplied

SpecValidate == ValidateInit /\ [][ValidateNext]_vars

(***************************************************************************)
(* The registry under any sequence of UpdateQuota and RemoveQuota          *)
(* operations; arg is the operation performed last, ret what it returned.  *)
(***************************************************************************)
RegistryRoles == {"r1", "r2"}

RegistryInit ==
  /\ SorterIdle
  /\ OthersIdle
  /\ MasterIdle
  /\ NoCall

PerformUpdateQuota ==
  /\ \E role \in RegistryRoles, g \in Guarantees :
       LET info == QuotaInfo(role, g)
       IN /\ registry' = UpdateQuota(registry, info).registry
          /\ ret' = <<UpdateQuota(registry, info).result>>
          /\ arg' = [op |-> "UpdateQuota", info |-> info]
  /\ UNCHANGED <<otherVars, sorterVars, quotas, registrar, slaves, frameworks, roleWhitelist,
                 authorizer, requests, allocatorCalls, aborted>>

PerformRemoveQuota ==
  /\ \E role \in RegistryRoles :
       /\ registry' = RemoveQuota(registry, role).registry
       /\ ret' = <<RemoveQuota(registry, role).result>>
       /\ arg' = [op |-> "RemoveQuota", info |-> QuotaInfo(role, <<>>)]
  /\ UNCHANGED <<otherVars, sorterVars, quotas, registrar, slaves, frameworks, roleWhitelist,
                 authorizer, requests, allocatorCalls, aborted>>

RegistryNext ==
  \/ PerformUpdateQuota
  \/ PerformRemoveQuota

SpecRegistry == RegistryInit /\ [][RegistryNext]_vars

(***************************************************************************)
(* Quota handler claims.                                                   *)
(***************************************************************************)
Rejections == {"BadRequest", "Conflict", "Unauthorized"}
RequestIds == DOMAIN requests

\* C3 (as claimed): a set request that continues after the quota of its role
\* was recorded in master->quotas is rejected, and the process does not abort.
C3_ConcurrentSetRejected ==
  [][\A i \in RequestIds :
       (/\ requests[i].stage = "authorizing"
        /\ QuotaRole(requests[i].info) \in DOMAIN quotas
        /\ (requests'[i] # requests[i] \/ aborted' # aborted))
       => (requests'[i].response \in Rejections /\ aborted' = "")]_vars

\* C4: the allocator is sent setQuota or removeQuota for a request only after
\* the registrar resolved that request's operation with true.
C4_PersistenceFirst ==
  \A k \in 1..Len(allocatorCalls) :
    allocatorCalls[k].call \in {"setQuota", "removeQuota"}
      => requests[allocatorCalls[k].req].result = "true"

\* C4 witness: a set and a remove both reached the allocator.
C4_Witness ==
  /\ \E k \in 1..Len(allocatorCalls) : allocatorCalls[k].call = "setQuota"
  /\ \E k \in 1..Len(allocatorCalls) : allocatorCalls[k].call = "removeQuota"

\* C5: every recoverResources call of a request's rescission comes after the
\* setQuota call of the same request in the allocator's queue.
C5_RescindAfterCommit ==
  \A k \in 1..Len(allocatorCalls) :
    allocatorCalls[k].call = "recoverResources"
      => \E j \in 1..(k - 1) :
           /\ allocatorCalls[j].call = "setQuota"
           /\ allocatorCalls[j].req = allocatorCalls[k].req

\* C5 witness: a granted request rescinded an offer.
C5_Witness ==
  \E k \in 1..Len(allocatorCalls) :
    /\ allocatorCalls[k].call = "recoverResources"
    /\ requests[allocatorCalls[k].req].response = "OK"

\* C7: a step that takes a set request towards a rejection (set() handing it
\* on to authorization, or the step that answers BadRequest, Conflict or
\* Unauthorized) leaves master->quotas, the registry, the allocator's queue
\* and the offers as they were.
C7_FailClosed ==
  [][\A i \in RequestIds :
       (/\ requests'[i] # requests[i]
        /\ requests'[i].kind = "set"
        /\ \/ requests'[i].stage = "authorizing"
           \/ requests'[i].response \in Rejections)
       => UNCHANGED <<quotas, registry, registrar, allocatorCalls, slaves>>]_vars

\* C7 witness: a request was answered Conflict and another BadRequest while
\* the master holds a quota.
C7_Witness ==
  /\ \E i \in RequestIds : requests[i].response = "Conflict"
  /\ \E i \in RequestIds : requests[i].response = "BadRequest"
  /\ DOMAIN quotas # {}

InFlight(i) == requests[i].stage \in {"authorizing", "applying", "applied"}

\* C8 (as claimed): a request whose registry operation resolved false or
\* failed ends with the master aborted; and while the master runs and no
\* request is in flight, a role has quota in master->quotas exactly if it has
\* an entry in the registry.
C8_PersistenceFailureFatal ==
  /\ \A i \in RequestIds :
       (requests[i].stage = "done" /\ requests[i].result \in {"false", "failed"})
         => aborted # ""
  /\ (aborted = "" /\ \A i \in RequestIds : ~InFlight(i))
       => \A i \in RequestIds :
            requests[i].result # "none"
              => (QuotaRole(requests[i].info) \in DOMAIN quotas
                    <=> IndexOfRole(registry, QuotaRole(requests[i].info)) > 0)

\* The request the claim calls well-formed: one or more scalar resources with
\* nothing quota may not carry, all of one role, which is whitelisted and has
\* no quota, and a guarantee the eligible agents' unreserved resources hold.
RECURSIVE EligibleUnreserved(_, _)
EligibleUnreserved(agents, sl) ==
  IF agents = {} THEN EmptyResources
  ELSE LET a == CHOOSE x \in agents : TRUE
       IN Plus(IF Eligible(sl[a]) THEN unreserved(sl[a].info) ELSE EmptyResources,
               EligibleUnreserved(agents \ {a}, sl))

WellFormed(body) ==
  /\ body # <<>>
  /\ \A k \in 1..Len(body) :
       /\ body[k].type = "SCALAR"
       /\ body[k].extra = "none"
       /\ body[k].role = body[1].role
       /\ body[k].role \notin {Unset, ""}
  /\ isWhitelistedRole(roleWhitelist, body[1].role)
  /\ body[1].role \notin DOMAIN quotas
  /\ Contains(EligibleUnreserved(Agents, slaves), ToResources(body))

\* C9 (as claimed): set() accepts a well-formed request (it goes on to be
\* authorized and granted) instead of answering it with an error.
C9_WellFormedGranted ==
  [][\A i \in RequestIds, body \in SetBodies, force \in BOOLEAN :
       (WellFormed(body) /\ set(i, body, force))
         => requests'[i].response \notin Rejections]_vars

\* C6 (as claimed): capacityHeuristic succeeds exactly if the unreserved
\* resources of the connected and active agents contain the request's
\* guarantee plus the guarantees of the existing quotas.
C6_HeuristicIsContainment ==
  ret # <<>> =>
    (ret[1] = "None"
       <=> Contains(EligibleUnreserved(Agents, slaves),
                    Plus(ToResources(arg.guarantee), SumGuarantees(DOMAIN quotas, quotas))))

\* The resources of the recoverResources calls issued.
RECURSIVE Recovered(_)
Recovered(calls) ==
  IF calls = <<>> THEN EmptyResources
  ELSE Plus(IF Head(calls).call = "recoverResources"
              THEN Head(calls).resources ELSE EmptyResources,
            Recovered(Tail(calls)))

\* C10: when rescindOffers has returned, the rescinded resources contain the
\* guarantee or no connected and active agent has an outstanding offer left.
C10_RescissionSufficient ==
  ret # <<>> =>
    \/ Contains(Recovered(allocatorCalls), ToResources(arg.guarantee))
    \/ \A a \in Agents : Eligible(slaves[a]) => slaves[a].offers = <<>>

\* C10 witness: rescindOffers went through all agents, rescinded offers and
\* still fell short of the guarantee.
C10_Witness ==
  /\ ret # <<>>
  /\ allocatorCalls # <<>>
  /\ ~Contains(Recovered(allocatorCalls), ToResources(arg.guarantee))

\* What the agents before the i-th hold in offers, if connected and active.
RECURSIVE OfferedBefore(_, _)
OfferedBefore(i, sl) ==
  IF i <= 1 THEN EmptyResources
  ELSE Plus(IF Eligible(sl[AgentIds[i - 1]])
              THEN SumOffers(sl[AgentIds[i - 1]].offers) ELSE EmptyResources,
            OfferedBefore(i - 1, sl))

\* The connected and active agents before the i-th that hold an offer.
OfferingBefore(i, sl) ==
  Cardinality({k \in 1..(i - 1) :
                 Eligible(sl[AgentIds[k]]) /\ sl[AgentIds[k]].offers # <<>>})

\* Both stop conditions hold when the iteration reaches the i-th agent.
EnoughAt(i, sl, fws, request) ==
  /\ Contains(OfferedBefore(i, sl), ToResources(request.guarantee))
  /\ OfferingBefore(i, sl) >= frameworksInRole(QuotaRole(request), fws)

\* C11: rescindOffers leaves the offers of every agent it reaches once the
\* rescinded resources contain the guarantee and the visited agents are at
\* least the connected and active frameworks of the role; before that it
\* rescinds all offers of every connected and active agent it reaches,
\* and it never touches the others.
C11_RescindStopsWhenEnough ==
  [][(ret = <<>> /\ ret' # <<>>) =>
       \A i \in 1..Len(AgentIds) :
         LET a == AgentIds[i]
         IN IF EnoughAt(i, slaves, frameworks, arg) \/ ~Eligible(slaves[a])
              THEN slaves'[a].offers = slaves[a].offers
              ELSE slaves'[a].offers = <<>>]_vars

\* C11 witness: rescindOffers rescinded offers and stopped while a connected
\* and active agent still held one.
C11_Witness ==
  /\ ret # <<>>
  /\ allocatorCalls # <<>>
  /\ \E a \in Agents : Eligible(slaves[a]) /\ slaves[a].offers # <<>>

\* C12 (as claimed): no quota with an empty role is recorded in
\* master->quotas, persisted in the registry or sent to the allocator.
C12_EmptyRoleRejected ==
  /\ "" \notin DOMAIN quotas
  /\ IndexOfRole(registry, "") = 0
  /\ \A k \in 1..Len(allocatorCalls) :
       allocatorCalls[k].call = "setQuota" => allocatorCalls[k].role # ""

\* A resource quota may not carry: non-scalar, or with ReservationInfo,
\* DiskInfo or RevocableInfo.
Forbidden(resource) == resource.type # "SCALAR" \/ resource.extra # "none"

\* C13: a set request with a resource that is non-scalar or carries
\* ReservationInfo, DiskInfo or RevocableInfo, at any position, is answered
\* BadRequest and nothing is recorded for it; and quota validation rejects
\* its resources as they were sent, whatever the reference role.
C13_ForbiddenResourceRejected ==
  \A i \in RequestIds :
    (/\ requests[i].kind = "set"
     /\ \E k \in 1..Len(requests[i].body) : Forbidden(requests[i].body[k]))
    => /\ requests[i].response = "BadRequest"
       /\ \A role \in RequestRoles : ~quotaInfo(QuotaInfo(role, requests[i].body)).ok
       /\ quotas \in RecoveredQuotas
       /\ registry = AsSequence(quotas)
       /\ registrar = <<>>
       /\ allocatorCalls = <<>>

\* C13 witness: a request whose second resource carries DiskInfo, after a
\* first resource that is fine, was answered BadRequest.
C13_Witness ==
  \E i \in RequestIds :
    /\ requests[i].response = "BadRequest"
    /\ Len(requests[i].body) = 2
    /\ ~Forbidden(requests[i].body[1])
    /\ requests[i].body[1].role = "r1"
    /\ requests[i].body[2].extra = "disk"
    /\ requests[i].body[2].role = "r1"

\* The result is the "different roles" error naming the roles of both
\* resources of the body.
NamesBothRoles(res, body) ==
  /\ ~res.ok
  /\ res.error[1] = "Resources with different roles"
  /\ {res.error[2], res.error[3]} = {RoleOf(body[1]), RoleOf(body[2])}

Structured(body) ==
  /\ body # <<>>
  /\ \A k \in 1..Len(body) :
       /\ ~Forbidden(body[k])
       /\ body[k].role = body[1].role
       /\ body[k].role \notin {Unset, ""}
  /\ isWhitelistedRole(roleWhitelist, body[1].role)
  /\ body[1].role \notin DOMAIN quotas

\* C15 (as claimed): set() does not answer BadRequest to a well-formed request
\* without the force flag whose guarantee, added to the existing guarantees,
\* exceeds the unreserved resources of the connected and active agents (the
\* request goes on to the capacity heuristic, which answers Conflict).
C15_InfeasibleIsConflict ==
  [][\A i \in RequestIds, body \in SetBodies :
       (/\ Structured(body)
        /\ ~Contains(EligibleUnreserved(Agents, slaves),
                     Plus(ToResources(body), SumGuarantees(DOMAIN quotas, quotas)))
        /\ set(i, body, FALSE))
         => requests'[i].response # "BadRequest"]_vars

\* C16 (as claimed): set() hands a well-formed request with the force flag on
\* to authorization, whatever the cluster capacity (from where it is recorded,
\* persisted and applied without a capacity check).
C16_ForcedIsGranted ==
  [][\A i \in RequestIds, body \in SetBodies :
       (Structured(body) /\ set(i, body, TRUE))
         => (requests'[i].stage = "authorizing" /\ requests'[i].forced)]_vars

\* The guarantees contained in the guarantee g.
ContainedIn(g) ==
  {h \in Guarantees : Contains(ToResources(g), ToResources(h))}

C18_ExistingQuotaKept ==
  [][/\ \A i \in RequestIds, body \in SetBodies, force \in BOOLEAN :
          (/\ createQuotaInfo(body).ok
           /\ QuotaRole(createQuotaInfo(body).value) \in DOMAIN quotas
           /\ set(i, body, force))
            => /\ requests'[i].response = "BadRequest"
               /\ UNCHANGED <<quotas, registry, registrar, allocatorCalls>>
     /\ \A i \in RequestIds :
          (/\ requests[i].kind = "set"
           /\ requests[i].stage = "authorizing"
           /\ requests'[i].stage = "applying")
            => QuotaRole(requests[i].info) \notin DOMAIN quotas]_vars

C20_RemoveAuthorization ==
  [][\A i \in RequestIds :
       (/\ authorizer # "none"
        /\ requests[i].stage = "new"
        /\ requests'[i].kind = "remove")
       => UNCHANGED <<quotas, registrar>>]_vars

\* The entries of the registry for the role.
EntriesOf(reg, role) == {k \in 1..Len(reg) : QuotaRole(reg[k]) = role}

\* C21: after every UpdateQuota or RemoveQuota the registry holds at most one
\* entry per role; UpdateQuota overwrites the role's entry if there is one and
\* adds one otherwise, changing no other entry and returning true; RemoveQuota
\* deletes the role's entry and returns true if there is one, and otherwise
\* leaves the registry as it is and returns false.
C21_OneEntryPerRole ==
  [][LET role == QuotaRole(arg'.info)
         had == EntriesOf(registry, role) # {}
         others(reg) == SelectSeq(reg, LAMBDA e : QuotaRole(e) # role)
     IN /\ \A r \in RegistryRoles : Cardinality(EntriesOf(registry', r)) <= 1
        /\ others(registry') = others(registry)
        /\ IF arg'.op = "UpdateQuota"
             THEN /\ ret' = <<TRUE>>
                  /\ \E k \in EntriesOf(registry', role) : registry'[k] = arg'.info
                  /\ Len(registry') = Len(registry) + (IF had THEN 0 ELSE 1)
             ELSE /\ ret' = <<had>>
                  /\ EntriesOf(registry', role) = {}
                  /\ ~had => registry' = registry]_vars

\* C21 witness: UpdateQuota overwrote the first of two entries.
C21_Witness ==
  /\ Len(registry) = 2
  /\ arg # <<>>
  /\ arg.op = "UpdateQuota"
  /\ registry[1] = arg.info
  /\ ret = <<TRUE>>

(***************************************************************************)
(* Sorter claims.                                                          *)
(***************************************************************************)
CurrentShare(name) == calculateShare(name, allocations, weights, resources)

\* c comes strictly before d by (calculateShare, allocations, name).
FairBefore(c, d) ==
  \/ ShareLess(CurrentShare(c.name), CurrentShare(d.name))
  \/ /\ CurrentShare(c.name) = CurrentShare(d.name)
     /\ \/ c.allocations < d.allocations
        \/ c.allocations = d.allocations /\ NameRank(c.name) < NameRank(d.name)

\* C1: the list sort() returns is the clients in ascending order of
\* calculateShare on the current allocations and pool, ties broken by the
\* allocations counter and then by name.
C1_SortOrdered ==
  result # <<>> =>
    LET it == Iterate(clients)
    IN /\ result = Names_of(it)
       /\ \A i \in 1..(Len(it) - 1) : FairBefore(it[i], it[i + 1])

\* C1 witness: sort() returned f2 before f1 because f1 holds a share of the
\* pool and f2 does not (Concrete scenario 1).
C1_Witness ==
  /\ result = <<"f2", "f1">>
  /\ ShareLess(CurrentShare("f2"), CurrentShare("f1"))

\* C2 (as claimed): after a sort(), an allocated/unallocated call with no
\* pool change leaves every active client's stored share equal to the share
\* recomputed from scratch.
C2_DirtyRecomputeEquivalence ==
  [][(/\ result # <<>>
      /\ DOMAIN allocations' = DOMAIN allocations
      /\ allocations' # allocations
      /\ resources' = resources)
     => \A c \in clients' :
          c.share = calculateShare(c.name, allocations', weights', resources')]_vars

\* C22 (as claimed): deactivate(c) followed by activate(c) gives c the
\* allocations counter it had before (its cumulative allocation is touched by
\* neither).
C22_FairnessMemorySurvives ==
  \A c \in clients :
    \A d \in Activated(c.name, Deactivated(c.name, clients),
                       allocations, weights, resources) :
      d.name = c.name => d.allocations = c.allocations

\* C23 (as claimed): add(name, weight) for a name the sorter holds leaves
\* clients, allocations and weights as they are.
C23_AddExistingIsNoOp ==
  \A name \in DOMAIN allocations, weight \in Weights :
    Added(name, weight, clients, allocations, weights)
      = [clients |-> clients, allocations |-> allocations, weights |-> weights]

\* The dominant share by definition: the greatest of allocated/total over the
\* scalar kinds whose total is positive (0 if there is none), over the weight.
DominantShare(name) ==
  LET ratios == {Frac(allocations[name][k], resources[k]) :
                   k \in {x \in ScalarKinds : resources[x] > 0}} \cup {<<0, 1>>}
      top == CHOOSE s \in ratios : \A t \in ratios : ~ShareLess(s, t)
  IN Frac(top[1], top[2] * weights[name])

MaxDispatches == 3    \* number of operations the callers dispatch
MaxCease == 2         \* number of ceaseAllocation calls that return

Ops == {"addFramework", "reviveOffers"}
Terminate == [id |-> 0, caller |-> "", op |-> "terminate"]
Message(id, caller, op) == [id |-> id, caller |-> caller, op |-> op]

\* Mutant of Enqueue: the event is put in front of the queued ones.
Enqueue_Front(mb, m) == <<m>> \o mb

\* process::dispatch: the event is put behind the queued ones.
Enqueue(mb, m) == Append(mb, m)

\* process::dispatch on a process: a terminated process gets nothing.
dispatch(p, mb, m) == IF p = "running" THEN Enqueue(mb, m) ELSE mb

\* process::terminate: the terminate event goes before the queued ones; a
\* terminated process gets nothing.
terminate(p, mb) == IF p = "running" THEN <<Terminate>> \o mb ELSE mb

\* Mutant of Joined: wait returns while the process runs.
Joined_NoWait(p) == TRUE

\* process::wait returns once the process has terminated.
Joined(p) == p = "terminated"

NoDestructor == \A t \in Threads : pc[t] # "destructing"

\* MesosAllocator::addFramework, ..., reviveOffers: one process::dispatch.
Dispatch ==
  /\ facade = "alive"
  /\ NoDestructor
  /\ nextId <= MaxDispatches
  /\ \E t \in Threads, op \in Ops :
       /\ pc[t] = "idle"
       /\ mailbox' = dispatch(process, mailbox, Message(nextId, t, op))
  /\ nextId' = nextId + 1
  /\ UNCHANGED <<process, executing, log, pc, ceasedAt, ceased, facade>>
  /\ UNCHANGED <<sorterVars, masterVars, callVars, passVars, toolVars>>

\* The process takes the oldest event and starts the operation.
ProcessServe ==
  /\ process = "running"
  /\ executing = {}
  /\ mailbox # <<>>
  /\ Head(mailbox) # Terminate
  /\ executing' = {Head(mailbox)}
  /\ mailbox' = Tail(mailbox)
  /\ UNCHANGED <<process, log, nextId, pc, ceasedAt, ceased, facade>>
  /\ UNCHANGED <<sorterVars, masterVars, callVars, passVars, toolVars>>

\* The operation returns.
ProcessFinish ==
  /\ \E m \in executing :
       /\ log' = Append(log, m)
       /\ executing' = executing \ {m}
  /\ UNCHANGED <<process, mailbox, nextId, pc, ceasedAt, ceased, facade>>
  /\ UNCHANGED <<sorterVars, masterVars, callVars, passVars, toolVars>>

\* The process takes the terminate event: it ends, its queue is dropped.
ProcessTerminate ==
  /\ process = "running"
  /\ executing = {}
  /\ mailbox # <<>>
  /\ Head(mailbox) = Terminate
  /\ process' = "terminated"
  /\ mailbox' = <<>>
  /\ UNCHANGED <<executing, log, nextId, pc, ceasedAt, ceased, facade>>
  /\ UNCHANGED <<sorterVars, masterVars, callVars, passVars, toolVars>>

\* MesosAllocator::ceaseAllocation, up to process::terminate.
ceaseAllocation(t, as) ==
  /\ pc[t] = "idle"
  /\ mailbox' = terminate(process, mailbox)
  /\ pc' = [pc EXCEPT ![t] = as]
  /\ ceasedAt' = IF ceasedAt = <<>> THEN <<nextId>> ELSE ceasedAt
  /\ UNCHANGED <<process, executing, log, nextId, ceased, facade>>

CeaseAllocation ==
  /\ facade = "alive"
  /\ NoDestructor
  /\ ceased + Cardinality({t \in Threads : pc[t] = "ceasing"}) < MaxCease
  /\ \E t \in Threads : ceaseAllocation(t, "ceasing")
  /\ UNCHANGED <<sorterVars, masterVars, callVars, passVars, toolVars>>

\* MesosAllocator::ceaseAllocation, process::wait returns.
CeaseReturn ==
  /\ \E t \in Threads :
       /\ pc[t] = "ceasing"
       /\ Joined(process)
       /\ pc' = [pc EXCEPT ![t] = "idle"]
  /\ ceased' = ceased + 1
  /\ UNCHANGED <<process, mailbox, executing, log, nextId, ceasedAt, facade>>
  /\ UNCHANGED <<sorterVars, masterVars, callVars, passVars, toolVars>>

\* MesosAllocator::~MesosAllocator: ceaseAllocation, while no other thread
\* is in a call.
Destructor ==
  /\ facade = "alive"
  /\ \A t \in Threads : pc[t] = "idle"
  /\ \E t \in Threads : ceaseAllocation(t, "destructing")
  /\ UNCHANGED <<sorterVars, masterVars, callVars, passVars, toolVars>>

\* The destructor returns: the process is released.
Destroyed ==
  /\ \E t \in Threads :
       /\ pc[t] = "destructing"
       /\ Joined(process)
       /\ pc' = [pc EXCEPT ![t] = "idle"]
  /\ facade' = "destroyed"
  /\ UNCHANGED <<process, mailbox, executing, log, nextId, ceasedAt, ceased>>
  /\ UNCHANGED <<sorterVars, masterVars, callVars, passVars, toolVars>>

FacadeInit ==
  /\ SorterIdle
  /\ MasterIdle
  /\ NoCall
  /\ OthersIdle

FacadeNext ==
  \/ Dispatch
  \/ ProcessServe
  \/ ProcessFinish
  \/ ProcessTerminate
  \/ CeaseAllocation
  \/ CeaseReturn
  \/ Destructor
  \/ Destroyed

SpecFacade == FacadeInit /\ [][FacadeNext]_vars

\* C25: once a ceaseAllocation call has returned the process is terminated;
\* a call made on a terminated process changes nothing and returns; no
\* operation dispatched after the first call is executed, then or later.
C25_IdempotentShutdown ==
  /\ (ceased > 0 \/ facade = "destroyed") => process = "terminated"
  /\ process = "terminated" =>
       /\ terminate(process, mailbox) = mailbox
       /\ Joined(process)
       /\ mailbox = <<>>
       /\ executing = {}
  /\ ceasedAt # <<>> =>
       \A i \in 1..Len(log) : log[i].id < ceasedAt[1]
  /\ ceasedAt # <<>> =>
       \A m \in executing : m.id < ceasedAt[1]

\* C25 witness: ceaseAllocation has returned twice, an operation was
\* dispatched after the first call, and the destructor has run.
C25_Witness ==
  /\ ceased = 2
  /\ facade = "destroyed"
  /\ ceasedAt # <<>>
  /\ nextId > ceasedAt[1]
  /\ log # <<>>

\* C26: the process executes at most one operation at a time and executes
\* the operations in the order the facade enqueued them: the numbers of the
\* executed operations increase, the one being executed is later than all of
\* them and earlier than every queued one, so each caller's operations take
\* effect in the order it issued them.
C26_SerializedInOrder ==
  /\ Cardinality(executing) <= 1
  /\ \A i, j \in 1..Len(log) : i < j => log[i].id < log[j].id
  /\ \A m \in executing : \A i \in 1..Len(log) : log[i].id < m.id
  /\ \A k \in 1..Len(mailbox) :
       mailbox[k] # Terminate =>
         /\ \A m \in executing : m.id < mailbox[k].id
         /\ \A i \in 1..Len(log) : log[i].id < mailbox[k].id

\* C26 witness: three operations were executed, two of one caller and one of
\* the other.
C26_Witness ==
  /\ Len(log) = 3
  /\ log[1].caller = log[3].caller
  /\ log[1].caller # log[2].caller

(***************************************************************************)
(* The allocator process: allocation passes and filters, as section 4.3    *)
(* of the specification describes them.                                    *)
(***************************************************************************)
MaxTriggers == 2      \* triggers that arrive during one pass
Refusals == {0, 1}    \* Filters.refuse_seconds: none, or some

\* Mutant of Coalesce: every trigger during a pass adds a pass.
Coalesce_Count(n) == n + 1

\* Triggers during a pass are coalesced into one further pass.
Coalesce(n) == 1

\* Mutant of Filtered: a filter suppresses nothing.
Filtered_Never(f, a, fl) == FALSE

\* An active filter of the framework on the agent suppresses the offer.
Filtered(f, a, fl) == <<f, a>> \in fl

\* The frameworks an agent's free resources may be offered to.
Candidates(a, fl) == {f \in FrameworkIds : ~Filtered(f, a, fl)}

\* A trigger, the periodic tick or a state-changing event: a pass starts, or
\* the pass in flight is followed by one more.
Trigger ==
  /\ during < MaxTriggers
  /\ IF inflight = 0
       THEN /\ inflight' = 1
            /\ UNCHANGED <<owed, during>>
       ELSE /\ owed' = Coalesce(owed)
            /\ during' = during + 1
            /\ UNCHANGED inflight
  /\ last' = Handler("trigger", "", "", 0, 0)
  /\ UNCHANGED <<held, filters>>
  /\ UNCHANGED <<sorterVars, masterVars, callVars, facadeVars, toolVars>>

\* The pass in flight finishes: every free agent is offered to a framework
\* that has no filter on it; a pass that is owed starts.
allocate ==
  /\ inflight > 0
  /\ \E h \in [Agents -> FrameworkIds \cup {"free"}] :
       /\ \A a \in Agents :
            IF held[a] # "free" THEN h[a] = held[a]
            ELSE IF Candidates(a, filters) = {} THEN h[a] = "free"
            ELSE h[a] \in Candidates(a, filters)
       /\ held' = h
  /\ IF owed > 0
       THEN /\ owed' = owed - 1
            /\ UNCHANGED inflight
       ELSE /\ inflight' = inflight - 1
            /\ UNCHANGED owed
  /\ during' = 0
  /\ last' = Handler("allocate", "", "", 0, during)
  /\ UNCHANGED filters
  /\ UNCHANGED <<sorterVars, masterVars, callVars, facadeVars, toolVars>>

\* recoverResources(framework, agent, resources, filters): the resources the
\* framework holds on the agent are free again; a refusal installs a filter.
recoverResources ==
  /\ \E f \in FrameworkIds, a \in Agents, refuse \in Refusals :
       /\ held[a] = f
       /\ held' = [held EXCEPT ![a] = "free"]
       /\ filters' = IF refuse > 0 THEN filters \cup {<<f, a>>} ELSE filters
       /\ last' = Handler("recoverResources", f, a, refuse, 0)
  /\ UNCHANGED <<inflight, owed, during>>
  /\ UNCHANGED <<sorterVars, masterVars, callVars, facadeVars, toolVars>>

\* The timer of a filter expires: the filter is removed.
expire ==
  /\ \E x \in filters :
       /\ filters' = filters \ {x}
       /\ last' = Handler("expire", x[1], x[2], 0, 0)
  /\ UNCHANGED <<inflight, owed, during, held>>
  /\ UNCHANGED <<sorterVars, masterVars, callVars, facadeVars, toolVars>>

\* reviveOffers(framework): the filters of the framework are removed.
reviveOffers ==
  /\ \E f \in FrameworkIds :
       /\ filters' = {x \in filters : x[1] # f}
       /\ last' = Handler("reviveOffers", f, "", 0, 0)
  /\ UNCHANGED <<inflight, owed, during, held>>
  /\ UNCHANGED <<sorterVars, masterVars, callVars, facadeVars, toolVars>>

AllocationInit ==
  /\ SorterIdle
  /\ MasterIdle
  /\ NoCall
  /\ OthersIdle

AllocationNext ==
  \/ Trigger
  \/ allocate
  \/ recoverResources
  \/ expire
  \/ reviveOffers

SpecAllocation == AllocationInit /\ [][AllocationNext]_vars

\* C27: at most one allocation pass is in flight; while one is in flight,
\* exactly one further pass is owed if any trigger arrived during it and none
\* otherwise; when it finishes, that one pass starts and nothing more is owed.
C27_PassesCoalesced ==
  [][/\ inflight' <= 1
     /\ owed' = (IF inflight' = 1 /\ during' > 0 THEN 1 ELSE 0)
     /\ last'.op = "allocate" =>
          /\ inflight' = (IF during > 0 THEN 1 ELSE 0)
          /\ owed' = 0]_vars

\* C27 witness: a pass during which the most triggers arrived has finished
\* and one further pass is in flight, with nothing owed.
C27_Witness ==
  /\ last.op = "allocate"
  /\ last.triggers = MaxTriggers
  /\ inflight = 1
  /\ owed = 0

\* C28: recoverResources with a refusal leaves a filter of the framework on
\* the agent; while that filter is active no pass offers the agent's
\* resources to the framework; the filter goes only when its timer expires or
\* reviveOffers of the framework is processed; after reviveOffers the
\* framework has no filter on any agent.
C28_FilterSemantics ==
  [][\A f \in FrameworkIds, a \in Agents :
       /\ (last' = Handler("recoverResources", f, a, 1, 0)) =>
            <<f, a>> \in filters'
       /\ (<<f, a>> \in filters /\ held[a] # f) => held'[a] # f
       /\ (<<f, a>> \in filters /\ <<f, a>> \notin filters') =>
            \/ last' = Handler("expire", f, a, 0, 0)
            \/ last' = Handler("reviveOffers", f, "", 0, 0)
       /\ (last' = Handler("reviveOffers", f, "", 0, 0)) =>
            \A b \in Agents : <<f, b>> \notin filters']_vars

\* C28 witness: a pass has finished while a framework had a filter on a free
\* agent and the other agent went to that framework.
C28_Witness ==
  \E f \in FrameworkIds, a, b \in Agents :
    /\ last.op = "allocate"
    /\ <<f, a>> \in filters
    /\ held[a] \notin {f, "free"}
    /\ held[b] = f

\* A step in which the cumulative allocation of an active client grew: a
\* call of allocated on it.
AllocatedStep(name) ==
  /\ Active(name)
  /\ name \in DOMAIN allocations
  /\ name \in DOMAIN allocations'
  /\ allocations'[name] # allocations[name]
  /\ Contains(allocations'[name], allocations[name])

C30_PoolChangeThenSort ==
  [][/\ resources' # resources =>
          /\ dirty'
          /\ clients' = clients
          /\ allocations' = allocations
          /\ weights' = weights
     /\ result' # <<>> =>
          \A c \in clients' :
            c.share = calculateShare(c.name, allocations', weights', resources')]_vars

\* C30 witness: add f1, add f2, pool add cpus, f1 allocated cpus, sort():
\* f1's stored share is its recomputed, positive share and f2 comes first
\* (Concrete scenario 1 with the quantities of the bounds).
C30_Witness ==
  /\ dirty
  /\ result = <<"f2", "f1">>
  /\ resources["cpus"] > 0
  /\ allocations["f1"]["cpus"] > 0
  /\ allocations["f2"] = EmptyResources
  /\ \E c \in clients :
       /\ c.name = "f1"
       /\ c.share = CurrentShare("f1")
       /\ c.share # <<0, 1>>

\* C31 (as claimed): right after sort() has returned the dirty flag is clear,
\* so that the next allocated or unallocated updates the stored share.
C31_SortClearsDirty ==
  result # <<>> => ~dirty

(***************************************************************************)
(* The sorter under a caller that only adds, removes, activates and        *)
(* deactivates clients (and changes the pool), whatever their state.       *)
(***************************************************************************)
MemberAdd ==
  /\ \E name \in Names, w \in Weights :
       /\ add(name, w)
       /\ member' = Put(member, name, "active")
  /\ UNCHANGED <<masterVars, callVars, allocatorVars, watcherVars, healthVars,
                 profilerVars>>

MemberRemove ==
  /\ \E name \in Names :
       /\ remove(name)
       /\ member' = Erase(member, name)
  /\ UNCHANGED <<masterVars, callVars, allocatorVars, watcherVars, healthVars,
                 profilerVars>>

MemberActivate ==
  /\ \E name \in Names :
       /\ activate(name)
       /\ member' = Put(member, name, "active")
  /\ UNCHANGED <<masterVars, callVars, allocatorVars, watcherVars, healthVars,
                 profilerVars>>

MemberDeactivate ==
  /\ \E name \in Names :
       /\ deactivate(name)
       /\ member' = IF name \in DOMAIN member
                      THEN Put(member, name, "inactive")
                      ELSE member
  /\ UNCHANGED <<masterVars, callVars, allocatorVars, watcherVars, healthVars,
                 profilerVars>>

MemberAddResources ==
  /\ \E r \in NonEmptyResources : InBounds(Plus(resources, r)) /\ addResources(r)
  /\ UNCHANGED <<masterVars, callVars, otherVars>>

MemberRemoveResources ==
  /\ \E r \in NonEmptyResources : Contains(resources, r) /\ removeResources(r)
  /\ UNCHANGED <<masterVars, callVars, otherVars>>

MemberSort ==
  /\ sort
  /\ UNCHANGED <<masterVars, callVars, otherVars>>

MemberInit ==
  /\ SorterIdle
  /\ MasterIdle
  /\ NoCall
  /\ OthersIdle

MemberNext ==
  \/ MemberAdd
  \/ MemberRemove
  \/ MemberActivate
  \/ MemberDeactivate
  \/ MemberAddResources
  \/ MemberRemoveResources
  \/ MemberSort

SpecMembership == MemberInit /\ [][MemberNext]_vars

\* What sort() returns when called in the current state.
SortNow == Names_of(Iterate(Resorted(clients, dirty, allocations, weights, resources)))

\* C32: after any sequence of add, activate, deactivate and remove calls,
\* sort() returns the clients that are active, each name once: none that was
\* deactivated and not reactivated, none that was removed, none twice.
C32_SortReturnsActiveOnce ==
  /\ {SortNow[i] : i \in 1..Len(SortNow)}
       = {name \in DOMAIN member : member[name] = "active"}
  /\ \A i, j \in 1..Len(SortNow) : SortNow[i] = SortNow[j] => i = j
  /\ result # <<>> => result = SortNow

\* C32 witness: sort() has returned f1 alone while f2 is deactivated.
C32_Witness ==
  /\ result = <<"f1">>
  /\ "f2" \in DOMAIN member
  /\ member["f2"] = "inactive"

\* DRFSorter::contains
contains(name, al) == name \in DOMAIN al

\* DRFSorter::count
count(al) == Cardinality(DOMAIN al)

\* The allocations map after DRFSorter::allocation(name) has read
\* allocations[name]: operator[] inserts an entry for a name it does not hold.
Queried(name, al) == Put(al, name, AllocationOf(name, al))

\* The allocations map after the 'allocations[name] += resources' of
\* DRFSorter::allocated.
Granted(name, r, al) == Put(al, name, Plus(AllocationOf(name, al), r))

\* C33 (as claimed): allocation(c) and allocated(c, r) with a name that is
\* not in the sorter leave contains() and count() as they were.
C33_QueriesKeepMembership ==
  DOMAIN allocations # {} =>
    \A name \in Names \ DOMAIN allocations :
      /\ ~contains(name, Queried(name, allocations))
      /\ count(Queried(name, allocations)) = count(allocations)
      /\ \A r \in NonEmptyResources :
           /\ ~contains(name, Granted(name, r, allocations))
           /\ count(Granted(name, r, allocations)) = count(allocations)

QuotaRoles == {"", "r1", "r2"}

\* The quota calls the allocator received for the role, oldest first.
QuotaCallsFor(role) ==
  SelectSeq(allocatorCalls,
            LAMBDA c : c.call \in {"setQuota", "removeQuota"} /\ c.role = role)

\* No request is in flight, every registry apply succeeded, the master runs.
Quiescent ==
  /\ aborted = ""
  /\ registrar = <<>>
  /\ \A i \in RequestIds : ~InFlight(i) /\ requests[i].result # "failed"

\* C34: once no request is in flight (and every registry apply succeeded), a
\* role has quota in master->quotas exactly if it has an entry in the
\* registry, with the same guarantee, and the last setQuota/removeQuota call
\* the allocator received for the role, if any, left it in that same state.
C34_QuotaStoresConverge ==
  Quiescent =>
    \A role \in QuotaRoles :
      LET calls == QuotaCallsFor(role)
          inMaster == role \in DOMAIN quotas
      IN /\ inMaster <=> EntriesOf(registry, role) # {}
         /\ inMaster => \A k \in EntriesOf(registry, role) : registry[k] = quotas[role]
         /\ calls # <<>> =>
              IF calls[Len(calls)].call = "setQuota"
                THEN inMaster /\ quotas[role] = calls[Len(calls)].info
                ELSE ~inMaster

\* C34 witness: a set request and a remove request have both been answered
\* OK and nothing is in flight.
C34_Witness ==
  /\ Quiescent
  /\ \E i, j \in RequestIds :
       /\ requests[i].kind = "set"
       /\ requests[i].response = "OK"
       /\ requests[j].kind = "remove"
       /\ requests[j].response = "OK"

\* The recoverResources calls among the calls, for one agent, oldest first.
RecoveriesOn(calls, a) ==
  SelectSeq(calls, LAMBDA c : c.call = "recoverResources" /\ c.slave = a)

\* C35: rescindOffers removes from the master all offers of every connected
\* and active agent it reaches before the stop condition holds and none of
\* any other agent; it issues one recoverResources(framework, agent,
\* resources) per removed offer and no other, and the rescinded total is the
\* sum of the resources of those calls, that is of the removed offers.
C35_RescissionLossFree ==
  [][(ret = <<>> /\ ret' # <<>>) =>
       /\ \A i \in 1..Len(AgentIds) :
            LET a == AgentIds[i]
                new == RecoveriesOn(allocatorCalls', a)
            IN /\ slaves'[a].offers \in {<<>>, slaves[a].offers}
               /\ (Eligible(slaves[a]) /\ ~EnoughAt(i, slaves, frameworks, arg))
                    => slaves'[a].offers = <<>>
               /\ ~Eligible(slaves[a]) => slaves'[a].offers = slaves[a].offers
               /\ RecoveriesOn(allocatorCalls, a) = <<>>
               /\ IF slaves'[a].offers = <<>>
                    THEN /\ Len(new) = Len(slaves[a].offers)
                         /\ \A k \in 1..Len(new) :
                              /\ new[k].framework = slaves[a].offers[k].framework
                              /\ new[k].resources = slaves[a].offers[k].resources
                    ELSE new = <<>>
       /\ Len(allocatorCalls') =
            Len(RecoveriesOn(allocatorCalls', "a1")) + Len(RecoveriesOn(allocatorCalls', "a2"))
       /\ ret'[1].rescinded = Recovered(allocatorCalls')]_vars

\* C35 witness: rescindOffers removed two offers of one agent and left the
\* offer of an agent that is not connected or not active.
C35_Witness ==
  /\ ret # <<>>
  /\ \E a, b \in Agents :
       /\ Len(RecoveriesOn(allocatorCalls, a)) = 2
       /\ slaves[a].offers = <<>>
       /\ ~Eligible(slaves[b])
       /\ slaves[b].offers # <<>>

(***************************************************************************)
(* WhitelistWatcher (src/src/watcher/whitelist_watcher.cpp).  A file is    *)
(* the sequence of its characters.                                         *)
(***************************************************************************)
MaxFileLen == 4       \* the longest whitelist file, in characters

Chars == {"a", "b", "\n"}

RECURSIVE Files(_)
Files(n) ==
  IF n = 0 THEN {<<>>}
  ELSE Files(n - 1) \cup {Append(f, c) : f \in {g \in Files(n - 1) : Len(g) = n - 1},
                                         c \in Chars}

\* What os::read returns: an error, or the characters of the file.
Reads == {Error("read")} \cup {Ok(f) : f \in Files(MaxFileLen)}

\* strings::tokenize(s, "\n"): the non-empty runs of s between newlines,
\* with 'token' the run being read.
RECURSIVE tokenize(_, _)
tokenize(s, token) ==
  IF s = <<>> THEN (IF token = <<>> THEN <<>> ELSE <<token>>)
  ELSE IF Head(s) = "\n"
    THEN (IF token = <<>> THEN <<>> ELSE <<token>>) \o tokenize(Tail(s), <<>>)
    ELSE tokenize(Tail(s), Append(token, Head(s)))

\* The hostnames inserted into the hashset.
Hostnames(lines) == {lines[i] : i \in 1..Len(lines)}

\* The whitelist one watch() computes.
Whitelist(p, rd, previous) ==
  IF p = "*" THEN <<>>
  ELSE IF ~rd.ok THEN previous
  ELSE IF rd.value = <<>> THEN <<{}>>
  ELSE <<Hostnames(tokenize(rd.value, <<>>))>>

\* Mutant of Changed: every whitelist counts as new.
Changed_Always(whitelist, previous) == TRUE

\* whitelist != lastWhitelist
Changed(whitelist, previous) == whitelist # previous

\* WhitelistWatcher::watch, with what os::read returns to it.
watch(rd) ==
  LET whitelist == Whitelist(path, rd, lastWhitelist)
  IN /\ watches > 0
     /\ read' = IF path = "*" THEN <<>> ELSE <<rd>>
     /\ sent' = Changed(whitelist, lastWhitelist)
     /\ notified' = IF Changed(whitelist, lastWhitelist) THEN <<whitelist>> ELSE notified
     /\ lastWhitelist' = whitelist
     /\ watches' = (watches - 1) + 1
     /\ UNCHANGED path

Watch ==
  /\ \E rd \in Reads : watch(rd)
  /\ UNCHANGED <<sorterVars, masterVars, callVars, allocatorVars, memberVars,
                 healthVars, profilerVars>>

\* WhitelistWatcher::WhitelistWatcher and initialize: the first watch() is due.
WatcherInit ==
  /\ SorterIdle
  /\ MasterIdle
  /\ NoCall
  /\ AllocatorIdle
  /\ member = <<>>
  /\ HealthIdle
  /\ ProfilerIdle
  /\ path \in {"*", "file"}
  /\ lastWhitelist = <<>>
  /\ notified = <<>>
  /\ sent = FALSE
  /\ watches = 1
  /\ read = <<>>

WatcherNext == Watch

SpecWatcher == WatcherInit /\ [][WatcherNext]_vars

\* C36: a watch() calls the subscriber exactly if the whitelist it computed
\* differs from the one of the previous watch() (None at first), and then
\* with that whitelist, which differs from the one of the previous call of
\* the subscriber; path "*" gives None, an empty file Some of the empty set,
\* a failed read the previous whitelist and no call; one watch() is scheduled
\* afterwards.
C36_NotifyOnChangeOnly ==
  [][/\ sent' <=> lastWhitelist' # lastWhitelist
     /\ sent' => (notified' = <<lastWhitelist'>> /\ notified' # notified)
     /\ ~sent' => notified' = notified
     /\ path = "*" => lastWhitelist' = <<>>
     /\ (read' # <<>> /\ ~read'[1].ok) => (lastWhitelist' = lastWhitelist /\ ~sent')
     /\ (read' # <<>> /\ read'[1].ok /\ read'[1].value = <<>>) =>
          (lastWhitelist' = <<{}>> /\ lastWhitelist' # <<>>)
     /\ watches' = 1]_vars

\* C36 witness: the subscriber got the empty whitelist, and the watch() after
\* that failed to read the file and did not call it.
C36_Witness ==
  /\ notified = <<<<{}>>>>
  /\ read = <<Error("read")>>
  /\ ~sent
  /\ lastWhitelist = <<{}>>

(***************************************************************************)
(* The health checkers: HealthCheckerProcess of                            *)
(* src/src/health-check/health_checker.cpp ("health-check") and            *)
(* HealthChecker of src/src/checks/health_checker.cpp ("checks").          *)
(***************************************************************************)
MaxGrace == 1         \* the longest grace_period_seconds
MaxElapsed == 2       \* how far the clock runs after startTime
MaxThreshold == 2     \* the largest consecutive_failures of a HealthCheck
MaxFailures == 3      \* the most failures in a row

Variants == {"health-check", "checks"}

\* Whether Clock::now() is inside the grace period that starts at startTime.
InGracePeriod(c, elapsed) ==
  c.grace_period_seconds > 0 /\ elapsed <= c.grace_period_seconds

\* The condition under which failure() returns before counting.
Ignored(c, k) ==
  IF c.variant = "checks"
    THEN k.initializing /\ InGracePeriod(c, k.elapsed)
    ELSE InGracePeriod(c, k.elapsed)

\* bool killTask = consecutiveFailures >= check.consecutive_failures();
killTask(consecutiveFailures, c) == consecutiveFailures >= c.consecutive_failures

\* The clock advances.
Advance ==
  /\ checker.elapsed < MaxElapsed
  /\ checker' = [checker EXCEPT !.elapsed = @ + 1]
  /\ UNCHANGED <<check, status>>
  /\ UNCHANGED <<sorterVars, masterVars, callVars, allocatorVars, memberVars,
                 watcherVars, profilerVars>>

\* failure(message).  'outside' counts the failures outside the grace period
\* since the last success; 'scheduled' is whether another check will run
\* (HealthCheckerProcess fails its promise instead of rescheduling once it
\* asked for the kill).
failure ==
  /\ checker.scheduled
  /\ checker.consecutiveFailures < MaxFailures
  /\ LET outside == IF InGracePeriod(check, checker.elapsed)
                      THEN checker.outside ELSE checker.outside + 1
         failures == checker.consecutiveFailures + 1
     IN IF Ignored(check, checker)
          THEN /\ checker' = [checker EXCEPT !.ran = "failure", !.outside = outside]
               /\ status' = <<>>
          ELSE /\ checker' = [checker EXCEPT
                    !.ran = "failure",
                    !.outside = outside,
                    !.consecutiveFailures = failures,
                    !.scheduled = IF check.variant = "health-check"
                                    THEN ~killTask(failures, check) ELSE @]
               /\ status' = <<[healthy |-> FALSE,
                               consecutive_failures |-> failures,
                               kill_task |-> killTask(failures, check)]>>
  /\ UNCHANGED check
  /\ UNCHANGED <<sorterVars, masterVars, callVars, allocatorVars, memberVars,
                 watcherVars, profilerVars>>

\* success()
success ==
  /\ checker.scheduled
  /\ status' = IF checker.initializing \/ checker.consecutiveFailures > 0
                 THEN <<[healthy |-> TRUE]>> ELSE <<>>
  /\ checker' = [checker EXCEPT !.ran = "success", !.initializing = FALSE,
                                !.consecutiveFailures = 0, !.outside = 0]
  /\ UNCHANGED check
  /\ UNCHANGED <<sorterVars, masterVars, callVars, allocatorVars, memberVars,
                 watcherVars, profilerVars>>

\* The constructors, for every HealthCheck within the bounds.
HealthInit ==
  /\ SorterIdle
  /\ MasterIdle
  /\ NoCall
  /\ AllocatorIdle
  /\ member = <<>>
  /\ WatcherIdle
  /\ ProfilerIdle
  /\ check \in [variant : Variants,
                grace_period_seconds : 0..MaxGrace,
                consecutive_failures : 1..MaxThreshold]
  /\ checker = [consecutiveFailures |-> 0, initializing |-> TRUE, elapsed |-> 0,
                outside |-> 0, scheduled |-> TRUE, ran |-> ""]
  /\ status = <<>>

HealthNext == Advance \/ failure \/ success

SpecHealth == HealthInit /\ [][HealthNext]_vars

\* C37: after every failure() or success(), consecutiveFailures is the number
\* of failures outside the grace period since the last success; a success
\* makes it 0; a failure inside the grace period leaves it alone and sends
\* nothing; an unhealthy status has kill_task exactly if the count has
\* reached the consecutive_failures of the HealthCheck.
C37_FailureCounting ==
  [][checker'.elapsed = checker.elapsed =>
       /\ checker'.consecutiveFailures = checker'.outside
       /\ checker'.ran = "success" => checker'.consecutiveFailures = 0
       /\ (checker'.ran = "failure" /\ InGracePeriod(check, checker.elapsed)) =>
            (/\ checker'.consecutiveFailures = checker.consecutiveFailures
             /\ status' = <<>>)
       /\ (status' # <<>> /\ ~status'[1].healthy) =>
            (/\ status'[1].consecutive_failures = checker'.outside
             /\ status'[1].kill_task <=>
                  checker'.outside >= check.consecutive_failures)]_vars

(***************************************************************************)
(* Validation of a HealthCheck and HealthChecker::create.  An optional     *)
(* field is <<>> when unset and <<v>> when set to v; a path is the         *)
(* sequence of its characters.                                             *)
(***************************************************************************)
HealthChecks ==
  [type : {"", "COMMAND", "HTTP", "TCP", "UNKNOWN"},
   command : {<<>>, <<[value |-> <<>>, valid |-> TRUE]>>,
              <<[value |-> <<"true">>, valid |-> TRUE]>>,
              <<[value |-> <<"true">>, valid |-> FALSE]>>},
   http : {<<>>} \cup
          {<<h>> : h \in [scheme : {<<>>, <<"http">>, <<"https">>, <<"ftp">>},
                          path : {<<>>, <<<<"/", "h">>>>, <<<<"h">>>>}]},
   tcp : {<<>>, <<[port |-> 80]>>},
   delay_seconds : {<<>>, <<-1>>, <<0>>},
   timeout_seconds : {<<>>, <<-1>>}]

\* strings::startsWith(s, c)
startsWith(s, c) == s # <<>> /\ Head(s) = c

\* health::validation::healthCheck of health-check/health_checker.cpp: the
\* error of the HealthCheck c, <<>> when it has none.
healthCheck(c) ==
  IF c.type = "" THEN <<"HealthCheck must specify 'type'">>
  ELSE IF c.type = "COMMAND" THEN
    (IF c.command = <<>>
      THEN <<"Expecting 'command' to be set for command health check">>
    ELSE IF c.command[1].value = <<>>
      THEN <<"Command health check must contain">>
    ELSE <<>>)
  ELSE IF c.type = "HTTP" THEN
    (IF c.http = <<>>
      THEN <<"Expecting 'http' to be set for HTTP health check">>
    ELSE IF /\ c.http[1].scheme # <<>>
            /\ c.http[1].scheme[1] # "https"
            /\ c.http[1].scheme[1] # "https"
      THEN <<"Unsupported HTTP health check scheme">>
    ELSE IF c.http[1].path # <<>> /\ ~startsWith(c.http[1].path[1], "/")
      THEN <<"The path of HTTP health check must start with '/'">>
    ELSE <<>>)
  ELSE IF c.type = "TCP" THEN
    (IF c.tcp = <<>>
      THEN <<"Expecting 'tcp' to be set for TCP health check">>
    ELSE <<>>)
  ELSE <<"Unsupported health check type">>

\* What the switch of checks::validation::healthCheck returns, <<>> when it
\* breaks.
checkType(c) ==
  IF c.type = "COMMAND" THEN
    (IF c.command = <<>>
      THEN <<"Expecting 'command' to be set for COMMAND health check">>
    ELSE IF c.command[1].value = <<>>
      THEN <<"Command health check must contain">>
    ELSE IF ~c.command[1].valid
      THEN <<"Health check's CommandInfo is invalid">>
    ELSE <<>>)
  ELSE IF c.type = "HTTP" THEN
    (IF c.http = <<>>
      THEN <<"Expecting 'http' to be set for HTTP health check">>
    ELSE IF /\ c.http[1].scheme # <<>>
            /\ c.http[1].scheme[1] # "http"
            /\ c.http[1].scheme[1] # "https"
      THEN <<"Unsupported HTTP health check scheme">>
    ELSE IF c.http[1].path # <<>> /\ ~startsWith(c.http[1].path[1], "/")
      THEN <<"The path of HTTP health check must start with '/'">>
    ELSE <<>>)
  ELSE IF c.type = "TCP" THEN
    (IF c.tcp = <<>>
      THEN <<"Expecting 'tcp' to be set for TCP health check">>
    ELSE <<>>)
  ELSE <<"is not a valid health check type">>

\* checks::validation::healthCheck of checks/health_checker.cpp
checksHealthCheck(c) ==
  IF c.type = "" THEN <<"HealthCheck must specify 'type'">>
  ELSE IF checkType(c) # <<>> THEN checkType(c)
  ELSE IF c.delay_seconds # <<>> /\ c.delay_seconds[1] < 0
    THEN <<"Expecting 'delay_seconds' to be non-negative">>
  ELSE IF c.timeout_seconds # <<>> /\ c.timeout_seconds[1] < 0
    THEN <<"Expecting 'timeout_seconds' to be non-negative">>
  ELSE <<>>

\* validation::healthCheck of the variant
Validated(variant, c) ==
  IF variant = "checks" THEN checksHealthCheck(c) ELSE healthCheck(c)

\* HealthChecker::create: the error of the validation, or a checker.
create(variant, c) ==
  IF Validated(variant, c) # <<>>
    THEN Error(Validated(variant, c)[1])
    ELSE Ok("HealthChecker")

\* A caller validates a HealthCheck and creates a checker for it.
Create ==
  /\ ret = <<>>
  /\ ret' = <<Validated(arg.variant, arg.check), create(arg.variant, arg.check)>>
  /\ UNCHANGED <<arg, sorterVars, masterVars, otherVars>>

CreateInit ==
  /\ SorterIdle
  /\ MasterIdle
  /\ OthersIdle
  /\ arg \in [variant : Variants, check : HealthChecks]
  /\ ret = <<>>

CreateNext == Create

SpecCreate == CreateInit /\ [][CreateNext]_vars

\* C38: for an HTTP health check with 'http' set, validation returns the
\* 'Unsupported HTTP health check scheme' error exactly if the scheme is set
\* and is neither "http" nor "https", and returns no error when the scheme is
\* one of those and the path, if set, starts with '/'; create fails exactly
\* if validation returns an error.
C38_SchemeValidation ==
  ret # <<>> =>
    /\ ret[2].ok <=> ret[1] = <<>>
    /\ (arg.check.type = "HTTP" /\ arg.check.http # <<>>) =>
         LET http == arg.check.http[1]
             supported == http.scheme \in {<<>>, <<"http">>, <<"https">>}
         IN /\ ret[1] = <<"Unsupported HTTP health check scheme">> <=> ~supported
            /\ (/\ supported
                /\ http.path \in {<<>>, <<<<"/", "h">>>>}
                /\ arg.check.delay_seconds # <<-1>>
                /\ arg.check.timeout_seconds # <<-1>>) => ret[1] = <<>>

(***************************************************************************)
(* calculateShutdownTimeout (src/src/slave/utils.cpp).  A Duration is its  *)
(* number of time units.  The values of SHUTDOWN_TIMEOUT_DELTA and         *)
(* EXECUTOR_SHUTDOWN_GRACE_PERIOD are not part of the sources at hand: the  *)
(* function is computed for every positive delta and every nonnegative     *)
(* default within the bounds, handed to it in 'k'.                         *)
(***************************************************************************)
MaxTimeout == 8       \* the longest timeout and default grace period
MaxLevel == 3         \* the deepest caller level
MaxDelta == 2         \* the largest SHUTDOWN_TIMEOUT_DELTA

\* Duration * int
Scaled(d, n) == d * n

\* Mutant of Fraction: the timeout is not divided.
Fraction_Whole(d, n) == d

\* Duration /= int, on a nonnegative duration
Fraction(d, n) == d \div n

\* The timeout the function works with after its first if.
BaseTimeout(shutdownTimeout, k) ==
  IF shutdownTimeout < 0 THEN k.EXECUTOR_SHUTDOWN_GRACE_PERIOD
                         ELSE shutdownTimeout

calculateShutdownTimeout(shutdownTimeout, callerLevel, k) ==
  LET timeout == BaseTimeout(shutdownTimeout, k)
      numLevels == callerLevel + 1
      minReasonableTimeout == Scaled(k.SHUTDOWN_TIMEOUT_DELTA, numLevels)
  IN IF timeout >= minReasonableTimeout
       THEN timeout - Scaled(k.SHUTDOWN_TIMEOUT_DELTA, callerLevel)
       ELSE Fraction(timeout, numLevels)

\* A caller at callerLevel and its child at callerLevel + 1 calculate their
\* timeouts from the same base timeout.
Calculate ==
  /\ ret = <<>>
  /\ ret' = <<calculateShutdownTimeout(arg.shutdownTimeout, arg.callerLevel, arg),
              calculateShutdownTimeout(arg.shutdownTimeout, arg.callerLevel + 1, arg)>>
  /\ UNCHANGED <<arg, sorterVars, masterVars, otherVars>>

TimeoutInit ==
  /\ SorterIdle
  /\ MasterIdle
  /\ OthersIdle
  /\ arg \in [shutdownTimeout : (-2)..MaxTimeout,
              callerLevel : 0..MaxLevel,
              SHUTDOWN_TIMEOUT_DELTA : 1..MaxDelta,
              EXECUTOR_SHUTDOWN_GRACE_PERIOD : 0..MaxTimeout]
  /\ ret = <<>>

TimeoutNext == Calculate

SpecTimeout == TimeoutInit /\ [][TimeoutNext]_vars

\* C39: the timeout calculated for a level is nonnegative and not greater
\* than the base timeout (the given one, or the default grace period when
\* the given one is negative), and the timeout for the next level is
\* nonnegative and not greater than the one for the level.
C39_NestedTimeoutShrinks ==
  ret # <<>> =>
    /\ 0 <= ret[1]
    /\ ret[1] <= BaseTimeout(arg.shutdownTimeout, arg)
    /\ 0 <= ret[2]
    /\ ret[2] <= ret[1]

\* C39 witness: a negative timeout replaced by the default, a level that
\* subtracts the delta and a next level that has to take a fraction.
C39_Witness ==
  /\ ret # <<>>
  /\ arg.shutdownTimeout < 0
  /\ arg.callerLevel = 1
  /\ ret[1] = arg.EXECUTOR_SHUTDOWN_GRACE_PERIOD - arg.SHUTDOWN_TIMEOUT_DELTA
  /\ ret[2] = arg.EXECUTOR_SHUTDOWN_GRACE_PERIOD \div 3
  /\ 0 < ret[2]
  /\ ret[2] < ret[1]
  /\ arg.EXECUTOR_SHUTDOWN_GRACE_PERIOD < 3 * arg.SHUTDOWN_TIMEOUT_DELTA

(***************************************************************************)
(* MemoryProfiler (src/3rdparty/libprocess/src/memory_profiler.cpp).       *)
(* jemalloc is detected, profiling is active exactly while a run started   *)
(* here is current, and the 'id' parameter of a request, when present,     *)
(* parses.  A timestamp is a Try<time_t>.                                  *)
(***************************************************************************)
MaxClock == 2         \* the last second of the system clock

Downloads == {"downloadRaw", "downloadGraph", "downloadTextProfile"}

\* The 'id' parameter of a request: <<>> when absent.
RequestedIds == {<<>>} \cup {<<i>> : i \in 0..MaxClock}

\* What a generator can return.
Generated == {Ok("Nothing"), Error("generator failed")}

\* DiskArtifact::asHttp of the artifact stored as 'filename'.
asHttp(filename, isfile) ==
  IF isfile THEN [code |-> "OK", path |-> filename]
            ELSE [code |-> "BadRequest", path |-> ""]

BadRequest == [code |-> "BadRequest", path |-> ""]

\* DiskArtifact::generate: the timestamp afterwards and the result, with
\* 'generated' what the generator returns if it is called.
generate(timestamp, requestedTimestamp, generated) ==
  IF timestamp.ok /\ timestamp.value = requestedTimestamp
    THEN [timestamp |-> timestamp, result |-> Ok("Nothing")]
  ELSE IF ~generated.ok
    THEN [timestamp |-> Error(generated.error), result |-> generated]
  ELSE [timestamp |-> Ok(requestedTimestamp), result |-> Ok("Nothing")]

\* The generator lambdas of downloadGraph and downloadTextProfile, with
\* 'jeprof' what generateJeprofFile returns.
Outdated(requestedId, rawId, jeprof) ==
  IF ~(requestedId = rawId) THEN Error("Requested outdated version.")
                            ELSE jeprof

Answered(endpoint, requestedId, r) ==
  [endpoint |-> endpoint, id |-> requestedId, code |-> r.code, path |-> r.path]

profilerFrame ==
  UNCHANGED <<sorterVars, masterVars, callVars, allocatorVars, memberVars,
              watcherVars, healthVars>>

\* MemoryProfiler::start, at a time not before the last request
start ==
  /\ \E t \in now..MaxClock :
       /\ now' = t
       /\ currentRun' = IF currentRun = <<>> THEN <<t>> ELSE currentRun
  /\ reply' = Answered("start", <<>>, [code |-> "OK", path |-> ""])
  /\ UNCHANGED <<jemallocRawProfile, jeprofSymbolizedProfile, jeprofGraph>>
  /\ profilerFrame

\* MemoryProfiler::stop with stopAndGenerateRawProfile
stop ==
  /\ IF currentRun = <<>>
       THEN /\ reply' = Answered("stop", <<>>,
                 IF jemallocRawProfile.ok THEN [code |-> "OK", path |-> ""]
                                          ELSE BadRequest)
            /\ UNCHANGED <<currentRun, jemallocRawProfile>>
       ELSE \E dumped \in Generated :
              LET g == generate(jemallocRawProfile, currentRun[1], dumped)
              IN /\ currentRun' = <<>>
                 /\ jemallocRawProfile' = g.timestamp
                 /\ reply' = Answered("stop", <<>>,
                      IF g.result.ok THEN [code |-> "OK", path |-> ""]
                                     ELSE BadRequest)
  /\ UNCHANGED <<now, jeprofSymbolizedProfile, jeprofGraph>>
  /\ profilerFrame

\* MemoryProfiler::downloadRaw
downloadRaw ==
  /\ \E requestedId \in RequestedIds, isfile \in BOOLEAN :
       reply' = Answered("downloadRaw", requestedId,
         IF ~jemallocRawProfile.ok THEN BadRequest
         ELSE IF requestedId # <<>> /\ requestedId[1] # jemallocRawProfile.value
           THEN BadRequest
         ELSE asHttp("profile.dump", isfile))
  /\ UNCHANGED <<now, currentRun, jemallocRawProfile, jeprofSymbolizedProfile,
                 jeprofGraph>>
  /\ profilerFrame

\* MemoryProfiler::downloadGraph
downloadGraph ==
  /\ \E requestedId \in RequestedIds, isfile \in BOOLEAN, jeprof \in Generated :
       IF ~jemallocRawProfile.ok
         THEN /\ reply' = Answered("downloadGraph", requestedId, BadRequest)
              /\ UNCHANGED jeprofGraph
         ELSE LET rawId == jemallocRawProfile.value
                  id == IF requestedId = <<>> THEN rawId ELSE requestedId[1]
                  g == generate(jeprofGraph, rawId, Outdated(id, rawId, jeprof))
              IN /\ jeprofGraph' = g.timestamp
                 /\ reply' = Answered("downloadGraph", requestedId,
                      IF ~g.result.ok THEN BadRequest
                                      ELSE asHttp("profile.svg", isfile))
  /\ UNCHANGED <<now, currentRun, jemallocRawProfile, jeprofSymbolizedProfile>>
  /\ profilerFrame

\* MemoryProfiler::downloadTextProfile
downloadTextProfile ==
  /\ \E requestedId \in RequestedIds, isfile \in BOOLEAN, jeprof \in Generated :
       IF ~jemallocRawProfile.ok
         THEN /\ reply' = Answered("downloadTextProfile", requestedId, BadRequest)
              /\ UNCHANGED jeprofSymbolizedProfile
         ELSE LET rawId == jemallocRawProfile.value
                  id == IF requestedId = <<>> THEN rawId ELSE requestedId[1]
                  g == generate(jeprofSymbolizedProfile, id,
                                Outdated(id, rawId, jeprof))
              IN /\ jeprofSymbolizedProfile' = g.timestamp
                 /\ reply' = Answered("downloadTextProfile", requestedId,
                      IF ~g.result.ok THEN BadRequest
                                      ELSE asHttp("profile.svg", isfile))
  /\ UNCHANGED <<now, currentRun, jemallocRawProfile, jeprofGraph>>
  /\ profilerFrame

ProfilerInit ==
  /\ SorterIdle
  /\ MasterIdle
  /\ NoCall
  /\ AllocatorIdle
  /\ member = <<>>
  /\ WatcherIdle
  /\ HealthIdle
  /\ ProfilerIdle

ProfilerNext ==
  start \/ stop \/ downloadRaw \/ downloadGraph \/ downloadTextProfile

SpecProfiler == ProfilerInit /\ [][ProfilerNext]_vars

\* C40: a download request with an explicit id that is not the id of the
\* latest raw profile is answered with an error and is served no file.
C40_DownloadsVersionChecked ==
  (/\ reply # <<>>
   /\ reply.endpoint \in Downloads
   /\ reply.id # <<>>
   /\ (~jemallocRawProfile.ok \/ reply.id[1] # jemallocRawProfile.value)) =>
    (reply.code = "BadRequest" /\ reply.path = "")

====
